---- MODULE Spec2Model ----
(***************************************************************************)
(* Employee cache synchronisation of the attendance service.               *)
(*                                                                         *)
(* The employee_cache table (app/models/employee.py) is kept in step with  *)
(* the upstream employee service by six event handlers                     *)
(* (app/core/handlers/employee_handlers.py) and is read, cache first and   *)
(* remote second, by EmployeeValidationService                             *)
(* (app/core/employee_service.py) through the HTTP client                  *)
(* (app/api/clients/employee_service.py).                                  *)
(*                                                                         *)
(* Every handler opens one session, reads one row, changes it and commits; *)
(* a handler is one action, except under SpecRace, where the handlers of   *)
(* different topics interleave between their read and their commit.        *)
(* Python values are modelled as strings: None                             *)
(* is the string NoneVal, integers carried in event payloads (user_id,     *)
(* manager_id) are their decimal strings, a stored datetime is its         *)
(* isoformat() string.  The clock read by datetime.utcnow() is the         *)
(* variable clock.                                                         *)
(***************************************************************************)
EXTENDS Integers, Sequences, FiniteSets, TLC

VARIABLES
    cache,   \* the employee_cache table: a function from the ids present to rows
    clock,   \* the value datetime.utcnow() returns
    steps,   \* operations (event deliveries and lookups) run so far
    last,    \* the operation that ran last, its input and what it returned
    sessions, \* the handlers that have read and not yet committed, by topic
    consumer,   \* KafkaConsumer: whether registration ran, and the topics
                \* that have a handler
    attendance, \* the attendance table: the rows of today, in insertion order
    published,  \* the events published to the topic attendance-events
    call,       \* the lookup of the validation service that is running, and
                \* how far it has got
    requests    \* the check-in requests that are being served, each at one of
                \* its await points

vars ==
    <<cache, clock, steps, last, sessions, consumer, attendance, published,
      call, requests>>

\* the state of the attendance API, of the consumer's registry and of the
\* running lookup
api == <<consumer, attendance, published, call, requests>>

-----------------------------------------------------------------------------
(* Bounds of the model. *)

MaxId == 2        \* employee ids are 1..MaxId
MaxClock == 1     \* the clock runs from 0 to MaxClock
MaxSteps == 2     \* operations in one behaviour of Spec

Ids == 1..MaxId

-----------------------------------------------------------------------------
(* Python values. *)

NoneVal == "<None>"

\* employee_id missing from the event data: data.get("employee_id") is None
NoId == 0

EmptyMap == [k \in {} |-> ""]

\* dict.get(key, default)
Get(d, k, default) == IF k \in DOMAIN d THEN d[k] ELSE default

\* truth value of a string or None, as tested by `if email and first_name ...`
Truthy(v) == v # "" /\ v # NoneVal

RECURSIVE lstrip(_)
lstrip(s) ==
    IF Len(s) > 0 /\ SubSeq(s, 1, 1) = " "
    THEN lstrip(SubSeq(s, 2, Len(s)))
    ELSE s

RECURSIVE rstrip(_)
rstrip(s) ==
    IF Len(s) > 0 /\ SubSeq(s, Len(s), Len(s)) = " "
    THEN rstrip(SubSeq(s, 1, Len(s) - 1))
    ELSE s

\* str.strip()
strip(s) == rstrip(lstrip(s))

\* f"{first_name} {last_name}".strip()
FullName(first_name, last_name) == strip(first_name \o " " \o last_name)

-----------------------------------------------------------------------------
(* Event payloads. *)

\* the date strings that occur in event payloads
IsoDateZ == "2024-01-15T09:00:00Z"
PlainDate == "2024-01-15"
BadDate == "15/01/2024"

\* _parse_date: None stays None; an ISO string is parsed after "Z" is
\* replaced by "+00:00"; a date the parsers reject is logged and becomes None
parse_date(date_value) ==
    CASE date_value = NoneVal -> NoneVal
      [] date_value = IsoDateZ -> "2024-01-15T09:00:00+00:00"
      [] date_value = PlainDate -> "2024-01-15T00:00:00"
      [] OTHER -> NoneVal

Topics == {"employee-created", "employee-updated", "employee-deleted",
           "employee-terminated", "employee-suspended", "employee-activated"}

\* an event: its topic, data["employee_id"], the other keys of data, and
\* data["updated_fields"] (an absent updated_fields reads as {})
Event(topic, employee_id, data, updated_fields) ==
    [topic |-> topic, employee_id |-> employee_id, data |-> data,
     updated_fields |-> updated_fields]

NoEvent == Event("none", NoId, EmptyMap, EmptyMap)

-----------------------------------------------------------------------------
(* The employee_cache table. *)

\* the columns an updated event may change through updated_fields
UpdatableFields == {"email", "first_name", "last_name", "role", "job_title",
                    "department", "team", "manager_id", "employment_type",
                    "status", "user_id"}

\* the columns of EmployeeCache
Columns == UpdatableFields \cup
           {"id", "full_name", "joining_date", "created_at", "updated_at",
            "synced_at"}

Timestamps == {"updated_at", "synced_at"}

\* EmployeeCache(id=..., ...): a row of the table
EmployeeCache(id, user_id, email, first_name, last_name, full_name, role, job_title, department, team, manager_id, employment_type, status, joining_date, created_at, updated_at, synced_at) ==
    [id |-> id, user_id |-> user_id, email |-> email,
     first_name |-> first_name, last_name |-> last_name,
     full_name |-> full_name, role |-> role, job_title |-> job_title,
     department |-> department, team |-> team, manager_id |-> manager_id,
     employment_type |-> employment_type, status |-> status,
     joining_date |-> joining_date, created_at |-> created_at,
     updated_at |-> updated_at, synced_at |-> synced_at]

\* email is declared unique=True: the store rejects a row whose email another
\* row (of any status) holds
EmailTaken(c, id, email) == \E j \in DOMAIN c : j # id /\ c[j].email = email

Put(c, id, row) == [j \in DOMAIN c \cup {id} |-> IF j = id THEN row ELSE c[j]]

\* Commit on a table whose email column is not declared unique
Commit_not_unique(c, id, row, done) ==
    [cache |-> Put(c, id, row), outcome |-> done]

\* session.add(row); session.commit(): the row is written, or the commit
\* raises IntegrityError and the table is left as it was
Commit(c, id, row, done) ==
    IF EmailTaken(c, id, row.email)
    THEN [cache |-> c, outcome |-> "error"]
    ELSE [cache |-> Put(c, id, row), outcome |-> done]

-----------------------------------------------------------------------------
(* The event handlers.  Each returns the table after the handler and what   *)
(* the handler did: "inserted", "updated", "noop" (id not in the cache),    *)
(* "dropped" (event lacks what the handler needs), "error" (an exception    *)
(* was caught and logged).                                                  *)

\* the update branch that keeps the stored value of a column the event does
\* not carry
created_update_existing_keep_missing(existing, data, now) ==
    [existing EXCEPT
        !.user_id = Get(data, "user_id", existing.user_id),
        !.email = Get(data, "email", existing.email),
        !.first_name = Get(data, "first_name", existing.first_name),
        !.last_name = Get(data, "last_name", existing.last_name),
        !.full_name = FullName(Get(data, "first_name", existing.first_name),
                               Get(data, "last_name", existing.last_name)),
        !.role = Get(data, "role", existing.role),
        !.job_title = Get(data, "job_title", existing.job_title),
        !.department = Get(data, "department", existing.department),
        !.team = Get(data, "team", existing.team),
        !.manager_id = Get(data, "manager_id", existing.manager_id),
        !.employment_type = Get(data, "employment_type",
                                existing.employment_type),
        !.status = "active",
        !.joining_date = IF "joining_date" \in DOMAIN data
                         THEN parse_date(data.joining_date)
                         ELSE existing.joining_date,
        !.updated_at = now,
        !.synced_at = now]

\* the branch of handle_employee_created for an id already in the cache:
\* every column but id and created_at is overwritten from the event
created_update_existing(existing, data, now) ==
    [existing EXCEPT
        !.user_id = Get(data, "user_id", NoneVal),
        !.email = Get(data, "email", ""),
        !.first_name = Get(data, "first_name", ""),
        !.last_name = Get(data, "last_name", ""),
        !.full_name = FullName(Get(data, "first_name", ""),
                               Get(data, "last_name", "")),
        !.role = Get(data, "role", "employee"),
        !.job_title = Get(data, "job_title", ""),
        !.department = Get(data, "department", NoneVal),
        !.team = Get(data, "team", NoneVal),
        !.manager_id = Get(data, "manager_id", NoneVal),
        !.employment_type = Get(data, "employment_type", "permanent"),
        !.status = "active",
        !.joining_date = parse_date(Get(data, "joining_date", NoneVal)),
        !.updated_at = now,
        !.synced_at = now]

\* the branch of handle_employee_created for an id not in the cache
created_new_record(employee_id, data, now) ==
    EmployeeCache(employee_id,
                  Get(data, "user_id", NoneVal),
                  Get(data, "email", ""),
                  Get(data, "first_name", ""),
                  Get(data, "last_name", ""),
                  FullName(Get(data, "first_name", ""),
                           Get(data, "last_name", "")),
                  Get(data, "role", "employee"),
                  Get(data, "job_title", ""),
                  Get(data, "department", NoneVal),
                  Get(data, "team", NoneVal),
                  Get(data, "manager_id", NoneVal),
                  Get(data, "employment_type", "permanent"),
                  "active",
                  parse_date(Get(data, "joining_date", NoneVal)),
                  now, now, now)

\* handle_employee_created without the lookup of the existing row: the insert
\* of an id already stored violates the primary key
handle_employee_created_insert_only(c, ev, now) ==
    IF ev.employee_id = NoId
    THEN [cache |-> c, outcome |-> "dropped"]
    ELSE IF ev.employee_id \in DOMAIN c
    THEN [cache |-> c, outcome |-> "error"]
    ELSE Commit(c, ev.employee_id,
                created_new_record(ev.employee_id, ev.data, now),
                "inserted")

\* handle_employee_created without the test of employee_id: a row whose id is
\* None is inserted, and the store gives it the next free id
handle_employee_created_unguarded(c, ev, now) ==
    LET employee_id ==
            IF ev.employee_id # NoId THEN ev.employee_id
            ELSE CHOOSE i \in 1..(MaxId + 1) :
                    i \notin DOMAIN c /\ \A j \in 1..(i - 1) : j \in DOMAIN c
    IN  IF employee_id \in DOMAIN c
        THEN Commit(c, employee_id,
                    created_update_existing(c[employee_id], ev.data, now),
                    "updated")
        ELSE Commit(c, employee_id,
                    created_new_record(employee_id, ev.data, now),
                    "inserted")

handle_employee_created(c, ev, now) ==
    IF ev.employee_id = NoId
    THEN [cache |-> c, outcome |-> "dropped"]
    ELSE IF ev.employee_id \in DOMAIN c
    THEN Commit(c, ev.employee_id,
                created_update_existing(c[ev.employee_id], ev.data, now),
                "updated")
    ELSE Commit(c, ev.employee_id,
                created_new_record(ev.employee_id, ev.data, now),
                "inserted")

\* recovery_create that only logs the missing row and returns
recovery_create_log_only(c, employee_id, data, now) ==
    [cache |-> c, outcome |-> "dropped"]

\* recovery_create that tests the email alone (`if email:`)
recovery_create_email_only(c, employee_id, data, now) ==
    LET email == Get(data, "email", "")
        first_name == Get(data, "first_name", "")
        last_name == Get(data, "last_name", "")
    IN  IF Truthy(email)
        THEN Commit(c, employee_id,
                    EmployeeCache(employee_id,
                                  Get(data, "user_id", NoneVal),
                                  email, first_name, last_name,
                                  FullName(first_name, last_name),
                                  Get(data, "role", "employee"),
                                  Get(data, "job_title", "Unknown"),
                                  Get(data, "department", NoneVal),
                                  Get(data, "team", NoneVal),
                                  Get(data, "manager_id", NoneVal),
                                  Get(data, "employment_type", "permanent"),
                                  "active",
                                  NoneVal,
                                  now, now, now),
                    "inserted")
        ELSE [cache |-> c, outcome |-> "dropped"]

\* the branch of handle_employee_updated for an id not in the cache: a row is
\* created from the top-level data when it carries email, first_name and
\* last_name, and the event is dropped otherwise
recovery_create(c, employee_id, data, now) ==
    LET email == Get(data, "email", "")
        first_name == Get(data, "first_name", "")
        last_name == Get(data, "last_name", "")
    IN  IF Truthy(email) /\ Truthy(first_name) /\ Truthy(last_name)
        THEN Commit(c, employee_id,
                    EmployeeCache(employee_id,
                                  Get(data, "user_id", NoneVal),
                                  email, first_name, last_name,
                                  FullName(first_name, last_name),
                                  Get(data, "role", "employee"),
                                  Get(data, "job_title", "Unknown"),
                                  Get(data, "department", NoneVal),
                                  Get(data, "team", NoneVal),
                                  Get(data, "manager_id", NoneVal),
                                  Get(data, "employment_type", "permanent"),
                                  "active",
                                  NoneVal,
                                  now, now, now),
                    "inserted")
        ELSE [cache |-> c, outcome |-> "dropped"]

\* `if "k" in updated_fields: employee.k = updated_fields["k"]`
Changed(updated_fields, k, old) ==
    IF k \in DOMAIN updated_fields THEN updated_fields[k] ELSE old

\* apply_updated_fields reading every column with updated_fields.get(k): a
\* column that is not listed is overwritten with None
apply_updated_fields_unlisted(employee, updated_fields, now) ==
    [k \in DOMAIN employee |->
        IF k \in UpdatableFields THEN Get(updated_fields, k, NoneVal)
        ELSE IF k = "full_name"
        THEN FullName(Get(updated_fields, "first_name", NoneVal),
                      Get(updated_fields, "last_name", NoneVal))
        ELSE IF k \in Timestamps THEN now
        ELSE employee[k]]

\* apply_updated_fields that refreshes updated_at alone
apply_updated_fields_keep_synced(employee, updated_fields, now) ==
    [k \in DOMAIN employee |->
        IF k \in DOMAIN updated_fields THEN updated_fields[k]
        ELSE IF k = "full_name"
                /\ DOMAIN updated_fields \cap {"first_name", "last_name"} # {}
        THEN FullName(Get(updated_fields, "first_name", employee.first_name),
                      Get(updated_fields, "last_name", employee.last_name))
        ELSE IF k = "updated_at" THEN now
        ELSE employee[k]]

\* the branch of handle_employee_updated for an id in the cache: the columns
\* listed in updated_fields are set, the names recomputed, the timestamps
\* refreshed
apply_updated_fields(employee, updated_fields, now) ==
    LET first_name == Get(updated_fields, "first_name", employee.first_name)
        last_name == Get(updated_fields, "last_name", employee.last_name)
        names == "first_name" \in DOMAIN updated_fields
                 \/ "last_name" \in DOMAIN updated_fields
    IN  [employee EXCEPT
            !.email = Changed(updated_fields, "email", @),
            !.first_name = IF names THEN first_name ELSE @,
            !.last_name = IF names THEN last_name ELSE @,
            !.full_name = IF names THEN FullName(first_name, last_name) ELSE @,
            !.role = Changed(updated_fields, "role", @),
            !.job_title = Changed(updated_fields, "job_title", @),
            !.department = Changed(updated_fields, "department", @),
            !.team = Changed(updated_fields, "team", @),
            !.manager_id = Changed(updated_fields, "manager_id", @),
            !.employment_type = Changed(updated_fields, "employment_type", @),
            !.status = Changed(updated_fields, "status", @),
            !.user_id = Changed(updated_fields, "user_id", @),
            !.updated_at = now,
            !.synced_at = now]

handle_employee_updated(c, ev, now) ==
    IF ev.employee_id = NoId
    THEN [cache |-> c, outcome |-> "dropped"]
    ELSE IF ev.employee_id \notin DOMAIN c
    THEN recovery_create(c, ev.employee_id, ev.data, now)
    ELSE Commit(c, ev.employee_id,
                apply_updated_fields(c[ev.employee_id], ev.updated_fields, now),
                "updated")

\* the body shared by the deleted, terminated, suspended and activated
\* handlers: the row's status is set, its timestamps refreshed
SetStatus(c, ev, now, status) ==
    LET employee_id == ev.employee_id
    IN  IF employee_id = NoId
        THEN [cache |-> c, outcome |-> "dropped"]
        ELSE IF employee_id \notin DOMAIN c
        THEN [cache |-> c, outcome |-> "noop"]
        ELSE Commit(c, employee_id,
                    [c[employee_id] EXCEPT
                        !.status = status,
                        !.updated_at = now,
                        !.synced_at = now],
                    "updated")

\* handle_employee_deleted that leaves synced_at as it was
handle_employee_deleted_stale_sync(c, ev, now) ==
    IF ev.employee_id \in DOMAIN c
    THEN Commit(c, ev.employee_id,
                [c[ev.employee_id] EXCEPT !.status = "deleted",
                                          !.updated_at = now],
                "updated")
    ELSE SetStatus(c, ev, now, "deleted")

\* handle_employee_deleted that removes the row (session.delete)
handle_employee_deleted_hard(c, ev, now) ==
    IF ev.employee_id \in DOMAIN c
    THEN [cache |-> [j \in DOMAIN c \ {ev.employee_id} |-> c[j]],
          outcome |-> "updated"]
    ELSE SetStatus(c, ev, now, "deleted")

handle_employee_deleted(c, ev, now) == SetStatus(c, ev, now, "deleted")

handle_employee_terminated(c, ev, now) == SetStatus(c, ev, now, "terminated")

\* handle_employee_suspended copied from the terminated handler with the
\* status left as it was there
handle_employee_suspended_as_terminated(c, ev, now) ==
    SetStatus(c, ev, now, "terminated")

handle_employee_suspended(c, ev, now) == SetStatus(c, ev, now, "suspended")

\* handle_employee_activated that treats deleted as final
handle_employee_activated_deleted_final(c, ev, now) ==
    IF ev.employee_id \in DOMAIN c /\ c[ev.employee_id].status = "deleted"
    THEN [cache |-> c, outcome |-> "noop"]
    ELSE SetStatus(c, ev, now, "active")

handle_employee_activated(c, ev, now) == SetStatus(c, ev, now, "active")

\* what the store does to the session of one handler: nothing, or the read
\* (session.get) raises, or the commit raises
Faults == {"none", "read", "commit"}

\* a handler whose try block has no except clause: the exception leaves it
Try_no_except(c, ev, fault, r) ==
    IF fault = "none" \/ ev.employee_id = NoId THEN r
    ELSE IF fault = "read" THEN [cache |-> c, outcome |-> "raised"]
    ELSE IF r.outcome \in {"inserted", "updated"}
    THEN [cache |-> c, outcome |-> "raised"]
    ELSE r

\* try: ... except Exception: logger.error(...).  r is what the handler does
\* to table c when the store works; under a fault the exception is raised
\* where the handler reads or commits, the session is discarded and the
\* except clause logs it.  A handler that returns before it opens a session,
\* or before it commits, does not meet the fault.
Try(c, ev, fault, r) ==
    IF fault = "none" \/ ev.employee_id = NoId THEN r
    ELSE IF fault = "read" THEN [cache |-> c, outcome |-> "error"]
    ELSE IF r.outcome \in {"inserted", "updated"}
    THEN [cache |-> c, outcome |-> "error"]
    ELSE r

\* the handler of an event's topic
Handle(c, ev, now) ==
    CASE ev.topic = "employee-created" -> handle_employee_created(c, ev, now)
      [] ev.topic = "employee-updated" -> handle_employee_updated(c, ev, now)
      [] ev.topic = "employee-deleted" -> handle_employee_deleted(c, ev, now)
      [] ev.topic = "employee-terminated" ->
            handle_employee_terminated(c, ev, now)
      [] ev.topic = "employee-suspended" ->
            handle_employee_suspended(c, ev, now)
      [] ev.topic = "employee-activated" ->
            handle_employee_activated(c, ev, now)

-----------------------------------------------------------------------------
(* The remote employee client (EmployeeServiceClient).  The upstream call   *)
(* ends in an HTTP status, in a transport error (httpx.RequestError) or in  *)
(* another exception.                                                       *)

HttpOutcomes == {"200", "404", "500", "RequestError", "Exception"}

\* what a lookup's call of http_client can do: one of the client's outcomes,
\* or raise (a client double that raises, as the service's own except
\* clauses provide for)
RemoteOutcomes == HttpOutcomes \cup {"raises"}

\* Python's None where a profile is expected
NoneProfile == [none |-> TRUE]

\* the JSON body the upstream service answers with
RemoteBody(key) == [upstream |-> key]

\* status 200 with a body that is not the JSON object the upstream contract
\* promises: a JSON array, a JSON number, or text that is not JSON
OddBodies == {"200-array", "200-number", "200-text"}

\* everything a request of the client can end in
HttpResponses == HttpOutcomes \cup OddBodies

\* response.status_code == 200
Status200(http) == http \in {"200"} \cup OddBodies

\* response.json() of a body that is not an object
OddBody(http) == [body |-> http]

\* EmployeeServiceClient.verify_employee_exists: the body is not read
client_verify_employee_exists(http) == Status200(http)

\* client_get_employee without the test of the status code
client_get_employee_any_status(http, employee_id) ==
    CASE http = "200" -> RemoteBody(ToString(employee_id))
      [] http \in {"200-array", "200-number"} -> OddBody(http)
      [] http \in {"404", "500"} -> [error |-> http]
      [] OTHER -> NoneProfile

\* EmployeeServiceClient.get_employee: response.json() raises on text that
\* is not JSON, and the exception is caught
client_get_employee(http, employee_id) ==
    CASE http = "200" -> RemoteBody(ToString(employee_id))
      [] http \in {"200-array", "200-number"} -> OddBody(http)
      [] OTHER -> NoneProfile

\* EmployeeServiceClient.get_employees_list: len(employees) in the log line
\* raises on a number, and the exception is caught
client_get_employees_list(http) ==
    CASE http = "200" -> RemoteBody("list")
      [] http = "200-array" -> OddBody(http)
      [] OTHER -> NoneProfile

\* EmployeeServiceClient.get_employee_by_email: employee_data.get('id') in
\* the log line raises on a body that is not an object, and the exception is
\* caught
client_get_employee_by_email(http, email) ==
    CASE http = "200" -> RemoteBody(email)
      [] OTHER -> NoneProfile

-----------------------------------------------------------------------------
(* EmployeeValidationService.  db_error: the cache read raises.  Each       *)
(* operation returns value (the boolean of an existence check), profile    *)
(* (the dict or None of a get) and the number of remote calls it made;     *)
(* raised: an exception left the operation instead.                        *)

ProfileFields == {"id", "user_id", "email", "first_name", "last_name",
                  "full_name", "role", "job_title", "department", "team",
                  "manager_id", "employment_type", "status", "joining_date"}

\* the dict built from a cached row
Profile(employee) == [k \in ProfileFields |-> employee[k]]

ExistsStatuses == {"active", "on_leave"}

\* verify_employee_exists with a deny list in place of the allow list
verify_employee_exists_deny_list(c, employee_id, db_error) ==
    [value |-> /\ ~db_error
               /\ employee_id \in DOMAIN c
               /\ c[employee_id].status
                     \notin {"suspended", "terminated", "deleted"},
     profile |-> NoneProfile, remote_calls |-> 0, raised |-> FALSE]

verify_employee_exists(c, employee_id, db_error) ==
    IF ~db_error /\ employee_id \in DOMAIN c
    THEN [value |-> c[employee_id].status \in ExistsStatuses,
          profile |-> NoneProfile, remote_calls |-> 0, raised |-> FALSE]
    ELSE [value |-> FALSE, profile |-> NoneProfile, remote_calls |-> 0,
          raised |-> FALSE]

\* verify_employee_exists_async that answers True when the fallback raises
verify_employee_exists_async_fail_open(c, employee_id, db_error, remote) ==
    IF ~db_error /\ employee_id \in DOMAIN c
    THEN [value |-> c[employee_id].status \in ExistsStatuses,
          profile |-> NoneProfile, remote_calls |-> 0, raised |-> FALSE]
    ELSE [value |-> IF remote = "raises" THEN TRUE
                    ELSE client_verify_employee_exists(remote),
          profile |-> NoneProfile, remote_calls |-> 1, raised |-> FALSE]

\* verify_employee_exists_async that asks the remote service about a cached
\* row that is not active
verify_employee_exists_async_recheck(c, employee_id, db_error, remote) ==
    IF ~db_error /\ employee_id \in DOMAIN c
       /\ c[employee_id].status \in ExistsStatuses
    THEN [value |-> TRUE, profile |-> NoneProfile, remote_calls |-> 0,
          raised |-> FALSE]
    ELSE [value |-> IF remote = "raises" THEN FALSE
                    ELSE client_verify_employee_exists(remote),
          profile |-> NoneProfile, remote_calls |-> 1, raised |-> FALSE]

\* verify_employee_exists_async that answers False when the cache read
\* raises, as the cache-only check does
verify_employee_exists_async_fail_closed(c, employee_id, db_error, remote) ==
    IF db_error
    THEN [value |-> FALSE, profile |-> NoneProfile, remote_calls |-> 0,
          raised |-> FALSE]
    ELSE IF employee_id \in DOMAIN c
    THEN [value |-> c[employee_id].status \in ExistsStatuses,
          profile |-> NoneProfile, remote_calls |-> 0, raised |-> FALSE]
    ELSE [value |-> IF remote = "raises" THEN FALSE
                    ELSE client_verify_employee_exists(remote),
          profile |-> NoneProfile, remote_calls |-> 1, raised |-> FALSE]

verify_employee_exists_async(c, employee_id, db_error, remote) ==
    IF ~db_error /\ employee_id \in DOMAIN c
    THEN [value |-> c[employee_id].status \in ExistsStatuses,
          profile |-> NoneProfile, remote_calls |-> 0, raised |-> FALSE]
    ELSE [value |-> IF remote = "raises" THEN FALSE
                    ELSE client_verify_employee_exists(remote),
          profile |-> NoneProfile, remote_calls |-> 1, raised |-> FALSE]

\* get_employee that treats a cached record that is not active as a miss
get_employee_active_only(c, employee_id, db_error, remote) ==
    IF ~db_error /\ employee_id \in DOMAIN c
       /\ c[employee_id].status \in ExistsStatuses
    THEN [value |-> FALSE, profile |-> Profile(c[employee_id]),
          remote_calls |-> 0, raised |-> FALSE]
    ELSE [value |-> FALSE,
          profile |-> IF remote = "raises" THEN NoneProfile
                      ELSE client_get_employee(remote, employee_id),
          remote_calls |-> 1, raised |-> FALSE]

\* get_employee without the try block around the remote call
get_employee_unguarded(c, employee_id, db_error, remote) ==
    IF ~db_error /\ employee_id \in DOMAIN c
    THEN [value |-> FALSE, profile |-> Profile(c[employee_id]),
          remote_calls |-> 0, raised |-> FALSE]
    ELSE [value |-> FALSE,
          profile |-> IF remote = "raises" THEN NoneProfile
                      ELSE client_get_employee(remote, employee_id),
          remote_calls |-> 1, raised |-> remote = "raises"]

\* get_employee that asks the remote service about a record marked deleted
get_employee_deleted_is_miss(c, employee_id, db_error, remote) ==
    IF ~db_error /\ employee_id \in DOMAIN c
       /\ c[employee_id].status # "deleted"
    THEN [value |-> FALSE, profile |-> Profile(c[employee_id]),
          remote_calls |-> 0, raised |-> FALSE]
    ELSE [value |-> FALSE,
          profile |-> IF remote = "raises" THEN NoneProfile
                      ELSE client_get_employee(remote, employee_id),
          remote_calls |-> 1, raised |-> FALSE]

get_employee(c, employee_id, db_error, remote) ==
    IF ~db_error /\ employee_id \in DOMAIN c
    THEN [value |-> FALSE, profile |-> Profile(c[employee_id]),
          remote_calls |-> 0, raised |-> FALSE]
    ELSE LET employee_data == IF remote = "raises" THEN NoneProfile
                              ELSE client_get_employee(remote, employee_id)
         IN  [value |-> FALSE,
              profile |-> employee_data, remote_calls |-> 1, raised |-> FALSE]

\* get_employee_by_email that skips the records marked deleted
get_employee_by_email_not_deleted(c, email, db_error, remote) ==
    LET found == {j \in DOMAIN c :
                    c[j].email = email /\ c[j].status # "deleted"}
    IN  IF ~db_error /\ found # {}
        THEN [value |-> FALSE,
              profile |-> Profile(c[CHOOSE j \in found : TRUE]),
              remote_calls |-> 0, raised |-> FALSE]
        ELSE [value |-> FALSE,
              profile |-> IF remote = "raises" THEN NoneProfile
                          ELSE client_get_employee_by_email(remote, email),
              remote_calls |-> 1, raised |-> FALSE]

get_employee_by_email(c, email, db_error, remote) ==
    IF ~db_error /\ \E j \in DOMAIN c : c[j].email = email
    THEN [value |-> FALSE,
          profile |-> Profile(c[CHOOSE j \in DOMAIN c : c[j].email = email]),
          remote_calls |-> 0, raised |-> FALSE]
    ELSE LET employee_data == IF remote = "raises" THEN NoneProfile
                              ELSE client_get_employee_by_email(remote, email)
         IN  [value |-> FALSE,
              profile |-> employee_data, remote_calls |-> 1, raised |-> FALSE]

\* get_cached_employee_count: len(select(EmployeeCache).all()), 0 when the
\* read raises
get_cached_employee_count(c, db_error) ==
    IF db_error THEN 0 ELSE Cardinality(DOMAIN c)

\* get_active_employee_count that counts the employees the existence check
\* accepts
get_active_employee_count_exists(c, db_error) ==
    IF db_error THEN 0
    ELSE Cardinality({i \in DOMAIN c : c[i].status \in ExistsStatuses})

\* get_active_employee_count that counts every row not marked deleted
get_active_employee_count_not_deleted(c, db_error) ==
    IF db_error THEN 0
    ELSE Cardinality({i \in DOMAIN c : c[i].status # "deleted"})

\* get_active_employee_count: the rows where status == "active", 0 when the
\* read raises
get_active_employee_count(c, db_error) ==
    IF db_error THEN 0
    ELSE Cardinality({i \in DOMAIN c : c[i].status = "active"})

-----------------------------------------------------------------------------
(* The events and lookups the model delivers. *)

EmailOf(i) == "user" \o ToString(i) \o "@company.com"

Emails == {EmailOf(i) : i \in Ids}

\* the data of a created event as the upstream service publishes it
FullData(email) ==
    [user_id |-> "100", email |-> email, first_name |-> "John",
     last_name |-> "Doe", role |-> "HR_Manager",
     job_title |-> "Software Engineer", department |-> "Engineering",
     team |-> "Backend", manager_id |-> "5", employment_type |-> "contract",
     joining_date |-> PlainDate]

Restrict(d, keys) == [k \in DOMAIN d \cap keys |-> d[k]]

Without(d, k) == Restrict(d, DOMAIN d \ {k})

IdentityKeys == {"email", "first_name", "last_name"}

\* data of every shape: complete, one key missing, the identity keys only,
\* one identity key missing or empty, other date formats, nothing at all
WidePayloads ==
    {EmptyMap} \cup UNION {
        {FullData(e), Restrict(FullData(e), IdentityKeys),
         [FullData(e) EXCEPT !.first_name = ""],
         [FullData(e) EXCEPT !.joining_date = IsoDateZ],
         [FullData(e) EXCEPT !.joining_date = BadDate]}
        \cup {Without(FullData(e), k) : k \in DOMAIN FullData(e)}
        \cup {Without(Restrict(FullData(e), IdentityKeys), k) :
                k \in IdentityKeys}
        : e \in Emails}

\* the values updated_fields carries for a column
NewValues(k) ==
    CASE k = "email" -> Emails
      [] k = "first_name" -> {"Jane"}
      [] k = "last_name" -> {"Roe"}
      [] k = "role" -> {"manager"}
      [] k = "job_title" -> {"Senior Engineer"}
      [] k = "department" -> {"Architecture"}
      [] k = "team" -> {"Platform"}
      [] k = "manager_id" -> {"7"}
      [] k = "employment_type" -> {"part_time"}
      [] k = "status" -> {"on_leave", "archived"}
      [] k = "user_id" -> {"200"}

TitleChange == [job_title |-> "Senior Engineer", department |-> "Architecture"]

NameChange == [first_name |-> "Jane", last_name |-> "Roe"]

\* change sets: empty, one column, or several columns
WideChanges ==
    {EmptyMap, TitleChange, NameChange,
     [k \in UpdatableFields |-> CHOOSE v \in NewValues(k) : TRUE]}
    \cup UNION {{[j \in {k} |-> v] : v \in NewValues(k)} : k \in UpdatableFields}

StatusTopics == {"employee-deleted", "employee-terminated",
                 "employee-suspended", "employee-activated"}

\* the pool of a specification: the events of each topic, and the inputs of
\* the lookups
WidePool ==
    [created |-> {Event("employee-created", i, d, EmptyMap) :
                    i \in Ids \cup {NoId}, d \in WidePayloads},
     updated |-> {Event("employee-updated", i, d, u) :
                    i \in Ids, d \in WidePayloads,
                    u \in {EmptyMap, TitleChange}}
                 \cup {Event("employee-updated", i, d, u) :
                    i \in Ids \cup {NoId},
                    d \in {EmptyMap} \cup {FullData(e) : e \in Emails},
                    u \in WideChanges},
     status |-> {Event(t, i, EmptyMap, EmptyMap) :
                    t \in StatusTopics, i \in Ids \cup {NoId}},
     fault |-> {"none"},
     db_error |-> BOOLEAN,
     remote |-> RemoteOutcomes]

CompactPool ==
    [created |-> {Event("employee-created", i, d, EmptyMap) :
                    i \in Ids,
                    d \in {EmptyMap} \cup {FullData(e) : e \in Emails}},
     updated |-> {Event("employee-updated", i, EmptyMap, u) :
                    i \in Ids,
                    u \in {TitleChange, NameChange}
                          \cup {[status |-> st] : st \in NewValues("status")}
                          \cup {[email |-> e] : e \in Emails}}
                 \cup {Event("employee-updated", i,
                             Restrict(FullData(EmailOf(i)), keys), TitleChange) :
                    i \in Ids,
                    keys \in {IdentityKeys, IdentityKeys \ {"email"}}},
     status |-> {Event(t, i, EmptyMap, EmptyMap) :
                    t \in StatusTopics, i \in Ids},
     fault |-> {"none"},
     db_error |-> {FALSE},
     remote |-> {"200", "RequestError"}]

\* the compact pool, with storage faults
FaultPool == [CompactPool EXCEPT !.fault = Faults]

-----------------------------------------------------------------------------
(* The table a behaviour starts from.  The table outlives the process: at   *)
(* start it holds what earlier deliveries left in it.                       *)

EmptyCache == [i \in {} |-> NoEvent]

PlainCreated(i) == Event("employee-created", i, FullData(EmailOf(i)), EmptyMap)

\* the table after the events of a sequence were handled at time 0
RECURSIVE Replay(_, _)
Replay(c, evs) ==
    IF evs = << >> THEN c
    ELSE Replay(Handle(c, Head(evs), 0).cache, Tail(evs))

RECURSIVE ReplayCreated(_, _)
ReplayCreated(c, ids) ==
    IF ids = {} THEN c
    ELSE LET i == CHOOSE j \in ids : \A k \in ids : j <= k
         IN  ReplayCreated(Handle(c, PlainCreated(i), 0).cache, ids \ {i})

\* what earlier deliveries can have done to one employee
SeedScripts(i) ==
    {<< >>,
     <<PlainCreated(i)>>,
     <<Event("employee-created", i, EmptyMap, EmptyMap)>>}
    \cup {<<PlainCreated(i), Event(t, i, EmptyMap, EmptyMap)>> :
            t \in StatusTopics \ {"employee-activated"}}
    \cup {<<PlainCreated(i),
            Event("employee-updated", i, EmptyMap, [status |-> st])>> :
            st \in NewValues("status")}
    \cup {<<PlainCreated(i),
            Event("employee-updated", i, EmptyMap, [email |-> e])>> :
            e \in Emails \ {EmailOf(i)}}

\* one employee with any history, the others created or not yet known
SeedCaches ==
    UNION {{Replay(ReplayCreated(EmptyCache, others), script) :
                others \in SUBSET (Ids \ {i}), script \in SeedScripts(i)} :
           i \in Ids}

-----------------------------------------------------------------------------
(* The state machine. *)

NoLast ==
    [op |-> "none", ev |-> NoEvent, redelivered |-> FALSE, fresh |-> FALSE,
     outcome |-> "none", id |-> NoId, email |-> "", db_error |-> FALSE,
     remote |-> "none", value |-> FALSE, profile |-> NoneProfile,
     remote_calls |-> 0, raised |-> FALSE, count |-> 0, fault |-> "none",
     before |-> "", groups |-> {}, upstream |-> [none |-> TRUE],
     response |-> "none", branch |-> "none", log |-> "none",
     read |-> [none |-> TRUE]]

\* no request is being served
NoRequests == [slot \in {} |-> NoEvent]

\* no lookup is running
NoCall ==
    [op |-> "none", pc |-> "idle", id |-> NoId, email |-> "",
     db_error |-> FALSE, session |-> FALSE, in_flight |-> FALSE,
     requests |-> 0, remote |-> "none", value |-> FALSE,
     profile |-> NoneProfile]

\* KafkaConsumer before register_employee_handlers ran
NoConsumer == [registration |-> "none", handlers |-> {}]

\* no handler is between its read and its commit
NoSessions == [topic \in {} |-> NoEvent]

\* session.get returned None
NoEmployee == [none |-> TRUE]

\* the consumer hands event ev to its handler, whose result is r
Deliver(ev, fault, r) ==
    /\ cache' = r.cache
    /\ last' = [NoLast EXCEPT !.op = ev.topic, !.ev = ev, !.fault = fault,
                              !.fresh = ev.employee_id \notin DOMAIN cache,
                              !.outcome = r.outcome, !.id = ev.employee_id,
                              !.before = IF ev.employee_id \in DOMAIN cache
                                         THEN cache[ev.employee_id].status
                                         ELSE ""]
    /\ steps' = steps + 1
    /\ UNCHANGED <<clock, sessions, api>>

EmployeeCreated(pool, bound) ==
    /\ steps < bound
    /\ \E ev \in pool.created, fault \in pool.fault :
          Deliver(ev, fault,
                  Try(cache, ev, fault,
                      handle_employee_created(cache, ev, clock)))

EmployeeUpdated(pool, bound) ==
    /\ steps < bound
    /\ \E ev \in pool.updated, fault \in pool.fault :
          Deliver(ev, fault,
                  Try(cache, ev, fault,
                      handle_employee_updated(cache, ev, clock)))

EmployeeDeleted(pool, bound) ==
    /\ steps < bound
    /\ \E ev \in pool.status, fault \in pool.fault :
          /\ ev.topic = "employee-deleted"
          /\ Deliver(ev, fault,
                     Try(cache, ev, fault,
                         handle_employee_deleted(cache, ev, clock)))

EmployeeTerminated(pool, bound) ==
    /\ steps < bound
    /\ \E ev \in pool.status, fault \in pool.fault :
          /\ ev.topic = "employee-terminated"
          /\ Deliver(ev, fault,
                     Try(cache, ev, fault,
                         handle_employee_terminated(cache, ev, clock)))

EmployeeSuspended(pool, bound) ==
    /\ steps < bound
    /\ \E ev \in pool.status, fault \in pool.fault :
          /\ ev.topic = "employee-suspended"
          /\ Deliver(ev, fault,
                     Try(cache, ev, fault,
                         handle_employee_suspended(cache, ev, clock)))

EmployeeActivated(pool, bound) ==
    /\ steps < bound
    /\ \E ev \in pool.status, fault \in pool.fault :
          /\ ev.topic = "employee-activated"
          /\ Deliver(ev, fault,
                     Try(cache, ev, fault,
                         handle_employee_activated(cache, ev, clock)))

\* the bus delivers the last event a second time (at-least-once delivery)
Redeliver ==
    /\ last.ev # NoEvent
    /\ ~last.redelivered
    /\ LET r == Handle(cache, last.ev, clock)
       IN  /\ cache' = r.cache
           /\ last' = [last EXCEPT !.redelivered = TRUE, !.outcome = r.outcome]
    /\ UNCHANGED <<clock, steps, sessions, api>>

\* time passes
Tick ==
    /\ clock < MaxClock
    /\ clock' = clock + 1
    /\ UNCHANGED <<cache, steps, last, sessions, api>>

\* a lookup that stores the employee the remote service returned
Lookup_populate(op, id, email, db_error, remote, r) ==
    /\ last' = [NoLast EXCEPT !.op = op, !.id = id, !.email = email,
                              !.db_error = db_error, !.remote = remote,
                              !.value = r.value, !.profile = r.profile,
                              !.remote_calls = r.remote_calls,
                              !.raised = r.raised]
    /\ steps' = steps + 1
    /\ cache' = IF op = "get_employee" /\ r.remote_calls = 1
                   /\ r.profile # NoneProfile /\ id \notin DOMAIN cache
                THEN Commit(cache, id,
                            created_new_record(id, FullData(EmailOf(id)),
                                               clock),
                            "inserted").cache
                ELSE cache
    /\ UNCHANGED <<clock, sessions, api>>

\* a caller runs a lookup of the validation service, whose result is r
Lookup(op, id, email, db_error, remote, r) ==
    /\ last' = [NoLast EXCEPT !.op = op, !.id = id, !.email = email,
                              !.db_error = db_error, !.remote = remote,
                              !.value = r.value, !.profile = r.profile,
                              !.remote_calls = r.remote_calls,
                              !.raised = r.raised]
    /\ steps' = steps + 1
    /\ UNCHANGED <<cache, clock, sessions, api>>

VerifyEmployeeExists(pool, bound) ==
    /\ steps < bound
    /\ \E id \in Ids, db_error \in pool.db_error :
          Lookup("verify_employee_exists", id, "", db_error, "none",
                 verify_employee_exists(cache, id, db_error))

VerifyEmployeeExistsAsync(pool, bound) ==
    /\ steps < bound
    /\ \E id \in Ids, db_error \in pool.db_error, remote \in pool.remote :
          Lookup("verify_employee_exists_async", id, "", db_error, remote,
                 verify_employee_exists_async(cache, id, db_error, remote))

GetEmployee(pool, bound) ==
    /\ steps < bound
    /\ \E id \in Ids, db_error \in pool.db_error, remote \in pool.remote :
          Lookup("get_employee", id, "", db_error, remote,
                 get_employee(cache, id, db_error, remote))

GetEmployeeByEmail(pool, bound) ==
    /\ steps < bound
    /\ \E email \in Emails, db_error \in pool.db_error, remote \in pool.remote :
          Lookup("get_employee_by_email", NoId, email, db_error, remote,
                 get_employee_by_email(cache, email, db_error, remote))

\* a caller runs a method of the remote client against an upstream that
\* answers http
ClientRequest(bound) ==
    /\ steps < bound
    /\ \E http \in HttpResponses, id \in Ids :
          \E r \in {[op |-> "client.verify_employee_exists",
                      value |-> client_verify_employee_exists(http),
                      profile |-> NoneProfile],
                     [op |-> "client.get_employee", value |-> FALSE,
                      profile |-> client_get_employee(http, id)],
                     [op |-> "client.get_employees_list", value |-> FALSE,
                      profile |-> client_get_employees_list(http)],
                     [op |-> "client.get_employee_by_email", value |-> FALSE,
                      profile |-> client_get_employee_by_email(http,
                                                               EmailOf(id))]} :
              last' = [NoLast EXCEPT !.op = r.op, !.id = id,
                                     !.email = EmailOf(id), !.remote = http,
                                     !.value = r.value, !.profile = r.profile,
                                     !.remote_calls = 1]
    /\ steps' = steps + 1
    /\ UNCHANGED <<cache, clock, sessions, api>>

\* a caller runs a count operation, which returns count
Count(op, db_error, count) ==
    /\ last' = [NoLast EXCEPT !.op = op, !.db_error = db_error,
                              !.count = count]
    /\ steps' = steps + 1
    /\ UNCHANGED <<cache, clock, sessions, api>>

GetCachedEmployeeCount(pool, bound) ==
    /\ steps < bound
    /\ \E db_error \in pool.db_error :
          Count("get_cached_employee_count", db_error,
                get_cached_employee_count(cache, db_error))

GetActiveEmployeeCount(pool, bound) ==
    /\ steps < bound
    /\ \E db_error \in pool.db_error :
          Count("get_active_employee_count", db_error,
                get_active_employee_count(cache, db_error))

\* any sequence of deliveries and lookups on a cache that starts empty
Init ==
    /\ cache = EmptyCache
    /\ clock = 0
    /\ steps = 0
    /\ last = NoLast
    /\ sessions = NoSessions
    /\ consumer = NoConsumer
    /\ attendance = <<>>
    /\ published = <<>>
    /\ call = NoCall
    /\ requests = NoRequests

Next ==
    \/ EmployeeCreated(CompactPool, MaxSteps)
    \/ EmployeeUpdated(CompactPool, MaxSteps)
    \/ EmployeeDeleted(CompactPool, MaxSteps)
    \/ EmployeeTerminated(CompactPool, MaxSteps)
    \/ EmployeeSuspended(CompactPool, MaxSteps)
    \/ EmployeeActivated(CompactPool, MaxSteps)
    \/ Redeliver
    \/ Tick
    \/ VerifyEmployeeExists(CompactPool, MaxSteps)
    \/ VerifyEmployeeExistsAsync(CompactPool, MaxSteps)
    \/ GetEmployee(CompactPool, MaxSteps)
    \/ GetEmployeeByEmail(CompactPool, MaxSteps)
    \/ GetCachedEmployeeCount(CompactPool, MaxSteps)
    \/ GetActiveEmployeeCount(CompactPool, MaxSteps)

Spec == Init /\ [][Next]_vars

\* one operation, drawn from the wide pool, on a table earlier deliveries left
InitApply ==
    /\ cache \in SeedCaches
    /\ clock = 0
    /\ steps = 0
    /\ last = NoLast
    /\ sessions = NoSessions
    /\ consumer = NoConsumer
    /\ attendance = <<>>
    /\ published = <<>>
    /\ call = NoCall
    /\ requests = NoRequests

NextApply ==
    \/ EmployeeCreated(WidePool, 1)
    \/ EmployeeUpdated(WidePool, 1)
    \/ EmployeeDeleted(WidePool, 1)
    \/ EmployeeTerminated(WidePool, 1)
    \/ EmployeeSuspended(WidePool, 1)
    \/ EmployeeActivated(WidePool, 1)
    \/ Redeliver
    \/ Tick
    \/ VerifyEmployeeExists(WidePool, 1)
    \/ VerifyEmployeeExistsAsync(WidePool, 1)
    \/ GetEmployee(WidePool, 1)
    \/ GetEmployeeByEmail(WidePool, 1)
    \/ GetCachedEmployeeCount(WidePool, 1)
    \/ GetActiveEmployeeCount(WidePool, 1)
    \/ ClientRequest(1)

SpecApply == InitApply /\ [][NextApply]_vars

\* the worker of a topic handles one event at a time
Idle(topic) == topic \notin DOMAIN sessions

\* the handler of an event opens its session and reads the record of the
\* event's id: employee = session.get(EmployeeCache, employee_id)
SessionGet(pool, bound) ==
    /\ steps < bound
    /\ \E ev \in pool.created \cup pool.updated \cup pool.status :
          /\ ev.employee_id # NoId
          /\ Idle(ev.topic)
          /\ sessions' =
                [topic \in DOMAIN sessions \cup {ev.topic} |->
                    IF topic = ev.topic
                    THEN [ev |-> ev,
                          found |-> ev.employee_id \in DOMAIN cache,
                          employee |-> IF ev.employee_id \in DOMAIN cache
                                       THEN cache[ev.employee_id]
                                       ELSE NoEmployee]
                    ELSE sessions[topic]]
    /\ steps' = steps + 1
    /\ UNCHANGED <<cache, clock, last, api>>

\* the table as the session sees it: the record it read, or none, for its
\* own id, and the other records as they are
SessionView(c, s) ==
    IF s.found THEN Put(c, s.ev.employee_id, s.employee)
    ELSE [j \in DOMAIN c \ {s.ev.employee_id} |-> c[j]]

\* flush on a table without a primary key: the insert of an id that is
\* already stored succeeds
flush_no_primary_key(c, s, now) ==
    LET id == s.ev.employee_id
        r == Handle(SessionView(c, s), s.ev, now)
    IN  IF r.outcome \in {"inserted", "updated"}
        THEN [cache |-> Put(c, id, r.cache[id]), outcome |-> r.outcome]
        ELSE [cache |-> c, outcome |-> r.outcome]

\* session.add(employee); session.commit() of a session that read earlier:
\* a new object is INSERTed, and the insert of an id stored in the meantime
\* violates the primary key; an object that was read is UPDATEd in the
\* columns the handler changed.  The exception is caught by the handler.
flush(c, s, now) ==
    LET id == s.ev.employee_id
        r == Handle(SessionView(c, s), s.ev, now)
    IN  IF r.outcome = "inserted"
        THEN IF id \in DOMAIN c
             THEN [cache |-> c, outcome |-> "error"]
             ELSE [cache |-> Put(c, id, r.cache[id]), outcome |-> "inserted"]
        ELSE IF r.outcome = "updated"
        THEN [cache |->
                Put(c, id,
                    [k \in DOMAIN c[id] |->
                        IF r.cache[id][k] # s.employee[k]
                        THEN r.cache[id][k] ELSE c[id][k]]),
              outcome |-> "updated"]
        ELSE [cache |-> c, outcome |-> r.outcome]

\* a handler that has read commits and returns
SessionCommit ==
    \E topic \in DOMAIN sessions :
        LET s == sessions[topic]
            r == flush(cache, s, clock)
        IN  /\ cache' = r.cache
            /\ last' = [NoLast EXCEPT !.op = topic, !.ev = s.ev,
                                      !.fresh = ~s.found,
                                      !.outcome = r.outcome,
                                      !.id = s.ev.employee_id,
                                      !.read = s.employee]
            /\ sessions' = [t \in DOMAIN sessions \ {topic} |-> sessions[t]]
            /\ UNCHANGED <<clock, steps, api>>

\* the handlers of different topics run concurrently: any interleaving of
\* their reads and commits
NextRace ==
    \/ SessionGet(CompactPool, MaxSteps)
    \/ SessionCommit
    \/ Tick

SpecRace == Init /\ [][NextRace]_vars

\* the compact pool, with the updates that change one component of the name
RacePool ==
    [CompactPool EXCEPT
        !.updated = @ \cup {Event("employee-updated", i, EmptyMap, u) :
                              i \in Ids,
                              u \in {[first_name |-> "Jane"],
                                     [last_name |-> "Roe"]}}]

\* the table when two workers start: empty, or one employee created
RaceCaches ==
    {EmptyCache} \cup {Replay(EmptyCache, <<PlainCreated(i)>>) : i \in Ids}

InitRace ==
    /\ cache \in RaceCaches
    /\ clock = 0
    /\ steps = 0
    /\ last = NoLast
    /\ sessions = NoSessions
    /\ consumer = NoConsumer
    /\ attendance = << >>
    /\ published = << >>
    /\ call = NoCall
    /\ requests = NoRequests

\* two events, handled by the workers of their topics on a table that holds
\* records
NextRaceCached ==
    \/ SessionGet(RacePool, 2)
    \/ SessionCommit
    \/ Tick

SpecRaceCached == InitRace /\ [][NextRaceCached]_vars

\* any sequence of deliveries in which the store may fail a handler's read
\* or commit
NextFault ==
    \/ EmployeeCreated(FaultPool, MaxSteps)
    \/ EmployeeUpdated(FaultPool, MaxSteps)
    \/ EmployeeDeleted(FaultPool, MaxSteps)
    \/ EmployeeTerminated(FaultPool, MaxSteps)
    \/ EmployeeSuspended(FaultPool, MaxSteps)
    \/ EmployeeActivated(FaultPool, MaxSteps)
    \/ Redeliver
    \/ Tick

SpecFault == Init /\ [][NextFault]_vars

-----------------------------------------------------------------------------
(* A lookup of the validation service, statement by statement.  Its pc is   *)
(* "with" inside `with Session(engine) as session:`, "fallback" at the      *)
(* `# HTTP fallback` block, "awaiting" while the awaited request of the     *)
(* remote client is out, and "done" at a return.                            *)

AsyncLookups ==
    {"verify_employee_exists_async", "get_employee", "get_employee_by_email"}

\* the ids of the rows the lookup's query selects
Selected(c, k) ==
    IF k.op = "get_employee_by_email"
    THEN {j \in DOMAIN c : c[j].email = k.email}
    ELSE {j \in DOMAIN c : j = k.id}

\* what a lookup returns from inside the with block on a hit
hit_result(k, employee) ==
    IF k.op = "verify_employee_exists_async"
    THEN [k EXCEPT !.value = employee.status \in ExistsStatuses]
    ELSE [k EXCEPT !.profile = Profile(employee)]

\* the body of the with block that keeps the session for the fallback
with_block_holds_session(c, k) ==
    LET found == Selected(c, k)
    IN  IF k.db_error \/ found = {}
        THEN [k EXCEPT !.pc = "fallback"]
        ELSE [hit_result(k, c[CHOOSE j \in found : TRUE])
                EXCEPT !.pc = "done", !.session = FALSE]

\* the body of the with block: the read raises, hits or misses.  A return,
\* an exception and the end of the block all leave the block, which closes
\* the session
with_block(c, k) ==
    LET found == Selected(c, k)
    IN  IF k.db_error \/ found = {}
        THEN [k EXCEPT !.pc = "fallback", !.session = FALSE]
        ELSE [hit_result(k, c[CHOOSE j \in found : TRUE])
                EXCEPT !.pc = "done", !.session = FALSE]

\* the answer of the remote client to the lookup's request
client_answer(k, remote) ==
    CASE k.op = "verify_employee_exists_async" ->
            [k EXCEPT !.value = client_verify_employee_exists(remote)]
      [] k.op = "get_employee" ->
            [k EXCEPT !.profile = client_get_employee(remote, k.id)]
      [] k.op = "get_employee_by_email" ->
            [k EXCEPT !.profile = client_get_employee_by_email(remote, k.email)]

\* a fallback that asks again, once, when the request failed
fallback_returns_retrying(k, remote) ==
    IF remote # "200" /\ k.requests < 2
    THEN [k EXCEPT !.pc = "fallback", !.in_flight = FALSE, !.remote = remote]
    ELSE [(IF remote = "raises" THEN k ELSE client_answer(k, remote))
            EXCEPT !.pc = "done", !.in_flight = FALSE, !.remote = remote]

\* the awaited call of the fallback block comes back: the client's answer is
\* returned, and False or None when the call raised
fallback_returns(k, remote) ==
    [(IF remote = "raises" THEN k ELSE client_answer(k, remote))
       EXCEPT !.pc = "done", !.in_flight = FALSE, !.remote = remote]

\* a caller starts a lookup: the session of the with block is opened
CallBegin(pool, bound) ==
    /\ steps < bound
    /\ call.pc = "idle"
    /\ \E op \in AsyncLookups, id \in Ids, db_error \in pool.db_error :
          call' = [NoCall EXCEPT !.op = op, !.pc = "with", !.id = id,
                                 !.email = EmailOf(id), !.db_error = db_error,
                                 !.session = TRUE]
    /\ steps' = steps + 1
    /\ UNCHANGED <<cache, clock, last, sessions, consumer, attendance,
                   published, requests>>

\* the with block runs
CallRead ==
    /\ call.pc = "with"
    /\ call' = with_block(cache, call)
    /\ UNCHANGED <<cache, clock, steps, last, sessions, consumer, attendance,
                   published, requests>>

\* the fallback block awaits the remote client, which sends its request
CallRequest ==
    /\ call.pc = "fallback"
    /\ call' = [call EXCEPT !.pc = "awaiting", !.in_flight = TRUE,
                            !.requests = @ + 1]
    /\ UNCHANGED <<cache, clock, steps, last, sessions, consumer, attendance,
                   published, requests>>

\* the request ends
CallResponse(pool) ==
    /\ call.pc = "awaiting"
    /\ \E remote \in pool.remote : call' = fallback_returns(call, remote)
    /\ UNCHANGED <<cache, clock, steps, last, sessions, consumer, attendance,
                   published, requests>>

\* the lookup returns to its caller
CallReturn ==
    /\ call.pc = "done"
    /\ call' = NoCall
    /\ last' = [NoLast EXCEPT !.op = call.op, !.id = call.id,
                              !.email = call.email,
                              !.db_error = call.db_error,
                              !.remote = call.remote, !.value = call.value,
                              !.profile = call.profile,
                              !.remote_calls = call.requests]
    /\ UNCHANGED <<cache, clock, steps, sessions, consumer, attendance,
                   published, requests>>

InitCall ==
    /\ cache \in SeedCaches
    /\ clock = 0
    /\ steps = 0
    /\ last = NoLast
    /\ sessions = NoSessions
    /\ consumer = NoConsumer
    /\ attendance = << >>
    /\ published = << >>
    /\ call = NoCall
    /\ requests = NoRequests

\* lookups, one at a time, on a table that holds records
NextCall ==
    \/ CallBegin(WidePool, 2)
    \/ CallRead
    \/ CallRequest
    \/ CallResponse(WidePool)
    \/ CallReturn

SpecCall == InitCall /\ [][NextCall]_vars

-----------------------------------------------------------------------------
(* Startup: register_employee_handlers gives KafkaConsumer the handler of   *)
(* each topic it registers, and the consumer then runs the handler of a     *)
(* topic on each event of that topic.                                       *)

\* the topics register_employee_handlers passes to register_handler
RegisteredTopics ==
    {"employee-created", "employee-updated", "employee-deleted",
     "employee-terminated"}

\* register_employee_handlers, called once at startup
register_employee_handlers(k, kafka_enabled) ==
    IF ~kafka_enabled
    THEN [k EXCEPT !.registration = "skipped"]
    ELSE [registration |-> "done",
          handlers |-> k.handlers \cup RegisteredTopics]

RegisterEmployeeHandlers ==
    /\ consumer.registration = "none"
    /\ \E kafka_enabled \in BOOLEAN :
          /\ consumer' = register_employee_handlers(consumer, kafka_enabled)
          /\ last' = [NoLast EXCEPT !.op = "register_employee_handlers",
                                    !.value = kafka_enabled]
    /\ UNCHANGED <<cache, clock, steps, sessions, attendance, published,
                   call, requests>>

\* the events of a pool, of every topic
PoolEvents(pool) == pool.created \cup pool.updated \cup pool.status

\* the consumer takes an event of a topic that has a handler and runs the
\* handler
Consume(pool, bound) ==
    /\ steps < bound
    /\ consumer.registration # "none"
    /\ \E ev \in PoolEvents(pool) :
          /\ ev.topic \in consumer.handlers
          /\ Deliver(ev, "none", Try(cache, ev, "none",
                                     Handle(cache, ev, clock)))

\* the service from startup on: registration, then the events the consumer
\* has a handler for
NextBus ==
    \/ RegisterEmployeeHandlers
    \/ Consume(CompactPool, MaxSteps)
    \/ Tick

SpecBus == Init /\ [][NextBus]_vars

-----------------------------------------------------------------------------
(* The check-in and check-out routes (app/api/routes/attendance.py).  The   *)
(* routes import employee_service from app.api.clients.employee_service:    *)
(* every employee lookup they make is a call of the remote client.  All     *)
(* requests of a behaviour fall on one day.                                 *)

\* the groups that may act for any employee
HrGroups == {"HR-Administrators", "HR-Managers", "Team-Managers"}

\* is_hr_or_manager
is_hr_or_manager(groups) == \E role \in HrGroups : role \in groups

\* current_user: the groups and the email of the token
Callers ==
    [groups : {{"Employees"}} \cup {{g} : g \in HrGroups}, email : Emails]

\* what the upstream employee service and the bus do during one request:
\* the outcome of the employee lookup, the email and the id in the object a
\* 200 carries, the outcome of the existence check, and whether the producer
\* accepts an event
Upstreams ==
    [lookup : {"200", "404", "RequestError", "200-array"}, email : Emails,
     id : Ids, verify : {"200", "404"}, bus : {"ok", "raises"}]

\* check_in_time and check_out_time of a row that has none
NoTime == -1

\* no row
NoRecord == [none |-> TRUE]

\* the members of EventType
EventType ==
    {"ATTENDANCE_CHECKIN", "ATTENDANCE_CHECKOUT", "ATTENDANCE_UPDATED",
     "ATTENDANCE_DELETED", "ATTENDANCE_LATE", "ATTENDANCE_EARLY_DEPARTURE",
     "ATTENDANCE_OVERTIME", "ATTENDANCE_SHORT_LEAVE", "ATTENDANCE_ABSENT",
     "ATTENDANCE_PRESENT", "ATTENDANCE_DAILY_SUMMARY",
     "ATTENDANCE_WEEKLY_SUMMARY", "ATTENDANCE_MONTHLY_SUMMARY",
     "ATTENDANCE_METRICS_UPDATED", "AUDIT_ATTENDANCE_ACTION"}

\* the try block that ends a successful request: EventType.<member> raises
\* AttributeError for a name that is no member, publish_event may raise, and
\* either exception is caught and logged as a warning
publish(member, record, bus) ==
    IF member \notin EventType THEN [events |-> << >>, log |-> "warning"]
    ELSE IF bus = "raises" THEN [events |-> << >>, log |-> "warning"]
    ELSE [events |-> <<[event_type |-> member, attendance_id |-> record.id,
                        employee_id |-> record.employee_id]>>,
          log |-> "info"]

\* session.exec(select(Attendance).where(employee_id, today)).first(): the
\* position of the row, 0 for None
first(att, employee_id) ==
    IF \E k \in 1..Len(att) : att[k].employee_id = employee_id
    THEN CHOOSE k \in 1..Len(att) :
            /\ att[k].employee_id = employee_id
            /\ \A j \in 1..(k - 1) : att[j].employee_id # employee_id
    ELSE 0

\* a check-in that adds a row without looking for the row of today
store_check_in_insert_only(att, employee_id, now) ==
    [attendance |->
        Append(att, [id |-> Len(att) + 1, employee_id |-> employee_id,
                     check_in_time |-> now, check_out_time |-> NoTime,
                     status |-> "present", updated_at |-> now]),
     at |-> Len(att) + 1, branch |-> "created"]

\* the two branches of a check-in: the row of today is updated, or a new row
\* is added; then session.commit()
store_check_in(att, employee_id, now) ==
    LET k == first(att, employee_id)
    IN  IF k # 0
        THEN [attendance |-> [att EXCEPT ![k].check_in_time = now,
                                         ![k].status = "present",
                                         ![k].updated_at = now],
              at |-> k, branch |-> "updated"]
        ELSE [attendance |->
                Append(att, [id |-> Len(att) + 1, employee_id |-> employee_id,
                             check_in_time |-> now, check_out_time |-> NoTime,
                             status |-> "present", updated_at |-> now]),
              at |-> Len(att) + 1, branch |-> "created"]

\* a request that ends in an HTTPException, or in an exception nothing
\* catches (500), before any write
Reject(att, response, remote_calls) ==
    [response |-> response, attendance |-> att, events |-> << >>,
     log |-> "none", branch |-> "none", remote_calls |-> remote_calls]

\* the RBAC block of check_in and check_out without the comparison of emails
rbac_lookup_only(current_user, employee_id, up) ==
    IF is_hr_or_manager(current_user.groups) THEN "ok"
    ELSE LET employee_data == client_get_employee(up.lookup, employee_id)
         IN  IF employee_data = NoneProfile THEN "400"
             ELSE IF employee_data = OddBody(up.lookup) THEN "500"
             ELSE "ok"

\* the RBAC block of check_in and check_out: a caller outside the HR groups
\* is looked up through the remote client; employee_data.get("email") raises
\* AttributeError on a body that is not an object
rbac(current_user, employee_id, up) ==
    IF is_hr_or_manager(current_user.groups) THEN "ok"
    ELSE LET employee_data == client_get_employee(up.lookup, employee_id)
         IN  IF employee_data = NoneProfile THEN "400"
             ELSE IF employee_data = OddBody(up.lookup) THEN "500"
             ELSE IF up.email # current_user.email THEN "403"
             ELSE "ok"

\* the remote calls the RBAC block makes
rbac_calls(current_user) ==
    IF is_hr_or_manager(current_user.groups) THEN 0 ELSE 1

\* the tail of both check-in routes
finish_check_in(att, employee_id, up, now, remote_calls) ==
    LET st == store_check_in(att, employee_id, now)
        pub == publish("ATTENDANCE_MARKED", st.attendance[st.at], up.bus)
    IN  [response |-> "201", attendance |-> st.attendance,
         events |-> pub.events, log |-> pub.log, branch |-> st.branch,
         remote_calls |-> remote_calls]

\* a check-out that marks the row of today as present
finish_check_out_marks_present(att, employee_id, up, now, remote_calls) ==
    LET k == first(att, employee_id)
    IN  IF k = 0 THEN Reject(att, "404", remote_calls)
        ELSE LET stored == [att EXCEPT ![k].check_out_time = now,
                                       ![k].status = "checked_out",
                                       ![k].updated_at = now]
                 pub == publish("ATTENDANCE_UPDATED", stored[k], up.bus)
             IN  [response |-> "200", attendance |-> stored,
                  events |-> pub.events, log |-> pub.log,
                  branch |-> "updated", remote_calls |-> remote_calls]

\* the tail of both check-out routes
finish_check_out(att, employee_id, up, now, remote_calls) ==
    LET k == first(att, employee_id)
    IN  IF k = 0 THEN Reject(att, "404", remote_calls)
        ELSE LET stored == [att EXCEPT ![k].check_out_time = now,
                                       ![k].updated_at = now]
                 pub == publish("ATTENDANCE_UPDATED", stored[k], up.bus)
             IN  [response |-> "200", attendance |-> stored,
                  events |-> pub.events, log |-> pub.log,
                  branch |-> "updated", remote_calls |-> remote_calls]

\* POST /attendance/check-in
check_in(att, current_user, employee_id, up, now) ==
    LET allowed == rbac(current_user, employee_id, up)
        calls == rbac_calls(current_user)
    IN  IF allowed # "ok" THEN Reject(att, allowed, calls)
        ELSE IF ~client_verify_employee_exists(up.verify)
        THEN Reject(att, "400", calls + 1)
        ELSE finish_check_in(att, employee_id, up, now, calls + 1)

\* POST /attendance/check-out
check_out(att, current_user, employee_id, up, now) ==
    LET allowed == rbac(current_user, employee_id, up)
        calls == rbac_calls(current_user)
    IN  IF allowed # "ok" THEN Reject(att, allowed, calls)
        ELSE IF ~client_verify_employee_exists(up.verify)
        THEN Reject(att, "400", calls + 1)
        ELSE finish_check_out(att, employee_id, up, now, calls + 1)

\* POST /attendance/check-in/me: the employee is the one the remote client
\* finds by the caller's email
check_in_self(att, current_user, up, now) ==
    IF client_get_employee_by_email(up.lookup, current_user.email) = NoneProfile
    THEN Reject(att, "404", 1)
    ELSE finish_check_in(att, up.id, up, now, 1)

\* POST /attendance/check-out/me
check_out_self(att, current_user, up, now) ==
    IF client_get_employee_by_email(up.lookup, current_user.email) = NoneProfile
    THEN Reject(att, "404", 1)
    ELSE finish_check_out(att, up.id, up, now, 1)

\* a request was served with result r
Respond(op, current_user, employee_id, up, r) ==
    /\ attendance' = r.attendance
    /\ published' = published \o r.events
    /\ last' = [NoLast EXCEPT !.op = op, !.id = employee_id,
                              !.email = current_user.email,
                              !.groups = current_user.groups,
                              !.upstream = up, !.response = r.response,
                              !.branch = r.branch, !.log = r.log,
                              !.remote_calls = r.remote_calls]
    /\ steps' = steps + 1
    /\ UNCHANGED <<cache, clock, sessions, consumer, call, requests>>

CheckIn(bound) ==
    /\ steps < bound
    /\ \E current_user \in Callers, employee_id \in Ids, up \in Upstreams :
          /\ up.id = employee_id
          /\ Respond("check_in", current_user, employee_id, up,
                     check_in(attendance, current_user, employee_id, up,
                              clock))

CheckOut(bound) ==
    /\ steps < bound
    /\ \E current_user \in Callers, employee_id \in Ids, up \in Upstreams :
          /\ up.id = employee_id
          /\ Respond("check_out", current_user, employee_id, up,
                     check_out(attendance, current_user, employee_id, up,
                               clock))

CheckInSelf(bound) ==
    /\ steps < bound
    /\ \E current_user \in Callers, up \in Upstreams :
          /\ up.email = current_user.email
          /\ up.verify = "200"
          /\ Respond("check_in_self", current_user, up.id, up,
                     check_in_self(attendance, current_user, up, clock))

CheckOutSelf(bound) ==
    /\ steps < bound
    /\ \E current_user \in Callers, up \in Upstreams :
          /\ up.email = current_user.email
          /\ up.verify = "200"
          /\ Respond("check_out_self", current_user, up.id, up,
                     check_out_self(attendance, current_user, up, clock))

\* the cache when the requests arrive: empty, or one employee created and
\* then, possibly, deleted, terminated or suspended
AttendanceCaches ==
    {EmptyCache}
    \cup {Replay(EmptyCache, <<PlainCreated(i)>>) : i \in Ids}
    \cup {Replay(EmptyCache,
                 <<PlainCreated(i), Event(t, i, EmptyMap, EmptyMap)>>) :
            i \in Ids, t \in StatusTopics \ {"employee-activated"}}

\* the rows of today when the requests arrive: none, or one employee who
\* checked in and then, possibly, out
AttendanceTables ==
    {<< >>}
    \cup {store_check_in(<< >>, i, 0).attendance : i \in Ids}
    \cup {[store_check_in(<< >>, i, 0).attendance
             EXCEPT ![1].check_out_time = 0] : i \in Ids}

InitAttendance ==
    /\ cache \in AttendanceCaches
    /\ clock = 0
    /\ steps = 0
    /\ last = NoLast
    /\ sessions = NoSessions
    /\ consumer = NoConsumer
    /\ attendance \in AttendanceTables
    /\ published = << >>
    /\ call = NoCall
    /\ requests = NoRequests

\* one request to any of the four routes
NextAttendance ==
    \/ CheckIn(1)
    \/ CheckOut(1)
    \/ CheckInSelf(1)
    \/ CheckOutSelf(1)
    \/ Tick

SpecAttendance == InitAttendance /\ [][NextAttendance]_vars

-----------------------------------------------------------------------------
(* Check-in requests served concurrently.  The routes are coroutines of one *)
(* event loop: two requests interleave at their awaits, which are the calls *)
(* of the remote client before the table is read and publish_event after    *)
(* the commit.  From the select of today's row to session.commit() a route  *)
(* has no await, so that stretch is one step.                               *)

\* the connections that can be open at once
Slots == {1, 2}

\* a request of a slot moves on
Move(slot, r) ==
    requests' = [k \in DOMAIN requests \cup {slot} |->
                    IF k = slot THEN r ELSE requests[k]]

\* a request of a slot is answered
Answer(slot, response, branch, log) ==
    /\ requests' = [k \in DOMAIN requests \ {slot} |-> requests[k]]
    /\ last' = [NoLast EXCEPT !.op = requests[slot].op,
                              !.id = requests[slot].employee_id,
                              !.email = requests[slot].current_user.email,
                              !.groups = requests[slot].current_user.groups,
                              !.response = response, !.branch = branch,
                              !.log = log]

\* the callers of the concurrent requests: an employee and an HR manager
\* for each email
SomeCallers ==
    {u \in Callers : u.groups \in {{"Employees"}, {"HR-Managers"}}}

\* a check_in or check_in_self request arrives and reaches its first await
RequestArrives(bound) ==
    /\ steps < bound
    /\ \E slot \in Slots \ DOMAIN requests, current_user \in SomeCallers :
          \/ \E employee_id \in Ids :
                Move(slot, [op |-> "check_in", pc |-> "rbac",
                            current_user |-> current_user,
                            employee_id |-> employee_id, branch |-> "none"])
          \/ Move(slot, [op |-> "check_in_self", pc |-> "lookup",
                         current_user |-> current_user,
                         employee_id |-> NoId, branch |-> "none"])
    /\ steps' = steps + 1
    /\ UNCHANGED <<cache, clock, last, sessions, consumer, attendance,
                   published, call>>

\* check_in: the RBAC block has run
RequestRbac ==
    /\ \E slot \in DOMAIN requests, up \in Upstreams :
          LET r == requests[slot]
              allowed == rbac(r.current_user, r.employee_id, up)
          IN  /\ r.pc = "rbac"
              /\ up.id = r.employee_id
              /\ up.verify = "200" /\ up.bus = "ok"
              /\ IF allowed = "ok"
                 THEN Move(slot, [r EXCEPT !.pc = "verify"])
                      /\ UNCHANGED last
                 ELSE Answer(slot, allowed, "none", "none")
    /\ UNCHANGED <<cache, clock, steps, sessions, consumer, attendance,
                   published, call>>

\* the table is read and written and the session committed, in one piece
Stored(slot, r, employee_id) ==
    LET st == store_check_in(attendance, employee_id, clock)
    IN  /\ attendance' = st.attendance
        /\ Move(slot, [r EXCEPT !.pc = "publish", !.employee_id = employee_id,
                                !.branch = st.branch])
        /\ UNCHANGED last

\* check_in: the existence check has returned; an employee who exists is
\* checked in
RequestVerify ==
    /\ \E slot \in DOMAIN requests, verify \in {"200", "404"} :
          LET r == requests[slot]
          IN  /\ r.pc = "verify"
              /\ IF client_verify_employee_exists(verify)
                 THEN Stored(slot, r, r.employee_id)
                 ELSE Answer(slot, "400", "none", "none")
                      /\ UNCHANGED attendance
    /\ UNCHANGED <<cache, clock, steps, sessions, consumer, published, call>>

\* check_in_self: the lookup by email has returned; an employee who was
\* found is checked in
RequestLookup ==
    /\ \E slot \in DOMAIN requests, id \in Ids,
          lookup \in {"200", "404", "RequestError"} :
          LET r == requests[slot]
              employee_data ==
                  client_get_employee_by_email(lookup, r.current_user.email)
          IN  /\ r.pc = "lookup"
              /\ IF employee_data # NoneProfile
                 THEN Stored(slot, r, id)
                 ELSE Answer(slot, "404", "none", "none")
                      /\ UNCHANGED attendance
    /\ UNCHANGED <<cache, clock, steps, sessions, consumer, published, call>>

\* the publish block has run and the row is returned
RequestPublish ==
    /\ \E slot \in DOMAIN requests, bus \in {"ok", "raises"} :
          LET r == requests[slot]
              k == first(attendance, r.employee_id)
              pub == publish("ATTENDANCE_MARKED", attendance[k], bus)
          IN  /\ r.pc = "publish"
              /\ published' = published \o pub.events
              /\ Answer(slot, "201", r.branch, pub.log)
    /\ UNCHANGED <<cache, clock, steps, sessions, consumer, attendance, call>>

\* two check-in requests, served one after the other or both at once
NextCheckIn ==
    \/ RequestArrives(2)
    \/ RequestRbac
    \/ RequestVerify
    \/ RequestLookup
    \/ RequestPublish
    \/ Tick

SpecCheckIn == Init /\ [][NextCheckIn]_vars

TypeOK ==
    /\ DOMAIN cache \subseteq Ids
    /\ \A i \in DOMAIN cache : cache[i].id = i
    /\ clock \in 0..MaxClock
    /\ steps \in Nat
    /\ DOMAIN sessions \subseteq Topics
    /\ consumer.handlers \subseteq Topics
    /\ \A k \in 1..Len(attendance) : attendance[k].id = k
    /\ Len(published) <= steps

-----------------------------------------------------------------------------
(* Properties. *)

\* the step is the second delivery of an event of the topic
Redelivered(topic) ==
    last'.op = topic /\ last'.redelivered /\ ~last.redelivered

\* the step is a delivery, first or second, of an event of the topic
Delivered(topic) ==
    \/ last'.op = topic /\ steps' = steps + 1
    \/ Redelivered(topic)

\* two tables hold the same rows, updated_at and synced_at aside
SameStored(c1, c2) ==
    /\ DOMAIN c1 = DOMAIN c2
    /\ \A i \in DOMAIN c1 :
          \A k \in Columns \ Timestamps : c1[i][k] = c2[i][k]

\* the row holds the values a created event carries, and is active
HoldsCreated(row, ev) ==
    /\ row.id = ev.employee_id
    /\ row.status = "active"
    /\ \A k \in DOMAIN ev.data \ {"joining_date"} : row[k] = ev.data[k]

\* the second delivery of a created event whose id the cache did not hold
CreatedAgain ==
    /\ Redelivered("employee-created")
    /\ last.fresh
    /\ last.id # NoId

\* after it the cache holds the event's row, and that delivery added no row
\* and did not fail
CreatedOnce ==
    /\ last.id \in DOMAIN cache'
    /\ DOMAIN cache' = DOMAIN cache
    /\ HoldsCreated(cache'[last.id], last.ev)
    /\ last'.outcome = "updated"

\* C1 as stated: a created event applied twice to a cache without its id
\* leaves one record for the id, holding the event's values with status
\* active; the second application adds no record and does not fail.
C1_CreatedTwiceOneRecord == [][CreatedAgain => CreatedOnce]_vars

\* C1, amended: the same, when no other record holds the event's email.
C1_CreatedTwiceOneRecordUniqueEmail ==
    [][(CreatedAgain
        /\ ~EmailTaken(cache, last.id, Get(last.ev.data, "email", "")))
       => CreatedOnce]_vars

C1_Witness ==
    /\ last.op = "employee-created"
    /\ last.redelivered
    /\ last.fresh
    /\ last.outcome = "updated"
    /\ last.id \in DOMAIN cache
    /\ DOMAIN cache # {last.id}

\* C2: every handler is idempotent: the second delivery of an event leaves
\* the stored state, updated_at and synced_at aside, as the first left it.
C2_HandlersIdempotent ==
    [][(last'.redelivered /\ ~last.redelivered) => SameStored(cache, cache')]_vars

\* the columns an updated event with this change set may change
MayChange(updated_fields) ==
    (DOMAIN updated_fields \cap UpdatableFields) \cup Timestamps
    \cup (IF "first_name" \in DOMAIN updated_fields
             \/ "last_name" \in DOMAIN updated_fields
          THEN {"full_name"} ELSE {})

\* C3: an updated event for an id in the cache changes only the columns its
\* updated_fields lists, full_name when a name is listed, and updated_at and
\* synced_at; every other column keeps its value, whatever the top-level data
\* carries, and no row is added.
C3_UpdatedChangesOnlyListed ==
    [][(Delivered("employee-updated") /\ last'.id \in DOMAIN cache)
       => /\ DOMAIN cache' = DOMAIN cache
          /\ \A k \in Columns :
                cache'[last'.id][k] # cache[last'.id][k]
                => k \in MayChange(last'.ev.updated_fields)]_vars

\* an updated event was applied to a cached row, and its top-level data
\* carries, for a column it does not list, a value the row does not hold
C3_Witness ==
    /\ last.op = "employee-updated"
    /\ ~last.fresh
    /\ ~last.redelivered
    /\ last.outcome = "updated"
    /\ DOMAIN last.ev.updated_fields # {}
    /\ \E k \in DOMAIN last.ev.data \ DOMAIN last.ev.updated_fields :
          last.ev.data[k] # cache[last.id][k]

\* C4: a deleted event for an id in the cache keeps the row, sets its status
\* to deleted and its updated_at and synced_at to the time of handling, and
\* changes nothing else; for an id not in the cache it changes nothing.
C4_DeletedIsSoft ==
    [][Delivered("employee-deleted")
       => IF last'.id \in DOMAIN cache
          THEN /\ DOMAIN cache' = DOMAIN cache
               /\ \A j \in DOMAIN cache \ {last'.id} : cache'[j] = cache[j]
               /\ cache'[last'.id].status = "deleted"
               /\ \A k \in Timestamps : cache'[last'.id][k] = clock
               /\ \A k \in Columns \ (Timestamps \cup {"status"}) :
                     cache'[last'.id][k] = cache[last'.id][k]
          ELSE cache' = cache]_vars

\* a deleted event was applied to a cached row some time after its creation
C4_Witness ==
    /\ last.op = "employee-deleted"
    /\ ~last.fresh
    /\ last.id \in DOMAIN cache
    /\ cache[last.id].status = "deleted"
    /\ cache[last.id].synced_at > cache[last.id].created_at
    /\ cache[last.id].email # ""

\* C5: no step removes a row: the set of cached ids only grows.
C5_NeverHardDeleted == [][DOMAIN cache \subseteq DOMAIN cache']_vars

\* a row was created and then deleted, and is still in the cache
C5_Witness ==
    /\ last.op = "employee-deleted"
    /\ last.outcome = "updated"
    /\ steps = MaxSteps
    /\ last.id \in DOMAIN cache

C7_MissFallsBackToRemote ==
    (last.op = "verify_employee_exists_async" /\ last.id \notin DOMAIN cache)
    => /\ last.remote_calls = 1
       /\ last.value <=> last.remote = "200"

\* on a miss the remote service answered 200 and the check returned true
C7_Witness ==
    /\ last.op = "verify_employee_exists_async"
    /\ last.id \notin DOMAIN cache
    /\ last.remote = "200"
    /\ last.value
    /\ last.remote_calls = 1

\* the lookup found its key in the cache
CacheHit ==
    /\ ~last.db_error
    /\ IF last.op = "get_employee_by_email"
       THEN \E j \in DOMAIN cache : cache[j].email = last.email
       ELSE last.id \in DOMAIN cache

\* the profile is the fixed field set, with the values of the row
FromRow(profile, row) ==
    /\ DOMAIN profile = ProfileFields
    /\ \A k \in ProfileFields : profile[k] = row[k]

\* C8: a lookup that finds its key in the cache makes no remote call and
\* answers from the cached row, whatever the row's status and whatever the
\* remote service would answer.
C8_RemoteOnlyOnMiss ==
    (/\ last.op \in {"verify_employee_exists_async", "get_employee",
                     "get_employee_by_email"}
     /\ CacheHit)
    => /\ last.remote_calls = 0
       /\ last.op = "verify_employee_exists_async"
          => (last.value <=> cache[last.id].status \in {"active", "on_leave"})
       /\ last.op = "get_employee" => FromRow(last.profile, cache[last.id])
       /\ last.op = "get_employee_by_email"
          => \E j \in DOMAIN cache :
                cache[j].email = last.email /\ FromRow(last.profile, cache[j])

\* a deleted employee, whom the remote service would confirm, is refused
\* from the cache
C8_Witness ==
    /\ last.op = "verify_employee_exists_async"
    /\ CacheHit
    /\ cache[last.id].status = "deleted"
    /\ last.remote = "200"
    /\ ~last.value
    /\ last.remote_calls = 0

\* an updated event with email, first_name and last_name in its data was
\* delivered once for an id the cache did not hold
OrphanUpdate ==
    /\ last.op = "employee-updated"
    /\ last.fresh
    /\ ~last.redelivered
    /\ last.id # NoId
    /\ \A k \in IdentityKeys :
          k \in DOMAIN last.ev.data /\ last.ev.data[k] # ""

\* the cache holds the row a recovery create makes of the event
RecoveryCreated ==
    /\ last.id \in DOMAIN cache
    /\ \A k \in IdentityKeys : cache[last.id][k] = last.ev.data[k]
    /\ cache[last.id].full_name =
          last.ev.data.first_name \o " " \o last.ev.data.last_name
    /\ cache[last.id].status = "active"

\* C9 as stated: an updated event for an absent id that carries email,
\* first_name and last_name creates the record, with those values, the
\* derived full_name and status active.
C9_OrphanUpdateCreates == OrphanUpdate => RecoveryCreated

\* C9, amended: the same, when no other record holds the event's email.
C9_OrphanUpdateCreatesUniqueEmail ==
    (OrphanUpdate /\ ~EmailTaken(cache, last.id, last.ev.data.email))
    => RecoveryCreated

C9_Witness ==
    /\ OrphanUpdate
    /\ last.outcome = "inserted"
    /\ last.id \in DOMAIN cache
    /\ cache[last.id].job_title = "Unknown"
    /\ DOMAIN cache # {last.id}

\* C10: an updated event for an absent id that lacks email, first_name or
\* last_name leaves the cache exactly as it was.
C10_OrphanUpdateDropped ==
    [][(/\ Delivered("employee-updated")
        /\ last'.id \notin DOMAIN cache
        /\ \E k \in IdentityKeys : Get(last'.ev.data, k, "") = "")
       => cache' = cache]_vars

\* an update that carries an email but no first name was dropped
C10_Witness ==
    /\ last.op = "employee-updated"
    /\ last.fresh
    /\ last.id # NoId
    /\ last.outcome = "dropped"
    /\ last.id \notin DOMAIN cache
    /\ "email" \in DOMAIN last.ev.data
    /\ "first_name" \notin DOMAIN last.ev.data

\* the value an updated event carries for a key, in updated_fields or, failing
\* that, at the top level of its data
Carried(ev, k) == Get(ev.updated_fields, k, Get(ev.data, k, ""))

\* an updated event was delivered once for an id the cache did not hold; it
\* carries email, first_name and last_name, in updated_fields or at the top
\* level, and no record holds that email
OrphanUpdateCarrying ==
    /\ last.op = "employee-updated"
    /\ last.fresh
    /\ ~last.redelivered
    /\ last.id # NoId
    /\ \A k \in IdentityKeys : Truthy(Carried(last.ev, k))
    /\ ~EmailTaken(cache, last.id, Carried(last.ev, "email"))

\* C11: the recovery create of an updated event for an absent id reads the
\* event's updated_fields as well as its top-level data: with email,
\* first_name and last_name given in either place the record is created, and
\* every value given in updated_fields is the value of the created record.
C11_RecoveryUsesUpdatedFields ==
    OrphanUpdateCarrying
    => /\ last.id \in DOMAIN cache
       /\ \A k \in DOMAIN last.ev.updated_fields :
             cache[last.id][k] = last.ev.updated_fields[k]

\* C12: with no storage error get_cached_employee_count returns the number
\* of records of any status and get_active_employee_count the number of
\* records whose status is active; on a storage error either returns 0.
C12_CountsAccurate ==
    /\ last.op = "get_cached_employee_count"
       => last.count = IF last.db_error THEN 0 ELSE Cardinality(DOMAIN cache)
    /\ last.op = "get_active_employee_count"
       => last.count =
             IF last.db_error THEN 0
             ELSE Cardinality({i \in DOMAIN cache :
                                  cache[i].status = "active"})

\* one of two records is on leave, and is not counted as active
C12_Witness ==
    /\ last.op = "get_active_employee_count"
    /\ ~last.db_error
    /\ last.count = 1
    /\ Cardinality(DOMAIN cache) = 2
    /\ \E i \in DOMAIN cache : cache[i].status = "on_leave"

\* the statuses of the data model
KnownStatuses == {"active", "on_leave", "suspended", "terminated", "deleted"}

\* C13: after any sequence of lifecycle events, updated events with a status
\* entry of any value among them, every record's status is one of active,
\* on_leave, suspended, terminated, deleted.
C13_StatusKnown ==
    \A i \in DOMAIN cache : cache[i].status \in KnownStatuses

\* no two records of the table hold the same email
UniqueEmails(c) ==
    \A i \in DOMAIN c : \A j \in DOMAIN c : i # j => c[i].email # c[j].email

\* the email the event would write to its record: a created event writes
\* the email of its data, an updated event for a cached id the email of its
\* updated_fields, an updated event for an absent id that carries the three
\* identity fields the email of its data
WritesEmail(c, ev) ==
    CASE ev.employee_id = NoId -> {}
      [] ev.topic = "employee-created" -> {Get(ev.data, "email", "")}
      [] ev.topic = "employee-updated" /\ ev.employee_id \in DOMAIN c ->
            IF "email" \in DOMAIN ev.updated_fields
            THEN {ev.updated_fields.email} ELSE {}
      [] ev.topic = "employee-updated" /\ ev.employee_id \notin DOMAIN c ->
            IF \A k \in IdentityKeys : Truthy(Get(ev.data, k, ""))
            THEN {ev.data.email} ELSE {}
      [] OTHER -> {}

\* the step handles an event that would give its record an email another
\* record holds
EmailCollision ==
    /\ \E topic \in Topics : Delivered(topic)
    /\ \E e \in WritesEmail(cache, last'.ev) :
          EmailTaken(cache, last'.ev.employee_id, e)

\* C14: no two records, deleted ones included, share an email; an event that
\* would give a record an email another record holds is handled as an error
\* and leaves the cache as it was.
C14_EmailUnique ==
    [][/\ UniqueEmails(cache) /\ UniqueEmails(cache')
       /\ EmailCollision => (cache' = cache /\ last'.outcome = "error")]_vars

\* an updated event tried to move a record to the email of another record
C14_Witness ==
    /\ last.op = "employee-updated"
    /\ ~last.fresh
    /\ last.outcome = "error"
    /\ "email" \in DOMAIN last.ev.updated_fields
    /\ EmailTaken(cache, last.id, last.ev.updated_fields.email)
    /\ cache[last.id].email # last.ev.updated_fields.email

\* the step handles an event, delivered for the first or the second time
Handled == \E topic \in Topics : Delivered(topic)

\* C15: a record's synced_at never decreases; an event that is applied to a
\* record (created on an existing record, updated, deleted, terminated,
\* suspended, activated) moves the record's synced_at to the time of its
\* handling, which is later than the old value whenever the clock has moved
\* since; an event that is dropped or fails leaves every synced_at as it was.
C15_SyncedAtMonotonic ==
    [][/\ \A i \in DOMAIN cache :
             /\ i \in DOMAIN cache'
             /\ cache'[i].synced_at >= cache[i].synced_at
       /\ (Handled /\ last'.outcome \in {"inserted", "updated"})
          => /\ cache'[last'.id].synced_at = clock
             /\ \A i \in DOMAIN cache \ {last'.id} :
                   cache'[i].synced_at = cache[i].synced_at
       /\ (Handled /\ last'.outcome \in {"dropped", "noop", "error"})
          => cache' = cache]_vars

\* a record created at time 0 was suspended at time 1
C15_Witness ==
    /\ last.op = "employee-suspended"
    /\ last.outcome = "updated"
    /\ cache[last.id].created_at = 0
    /\ cache[last.id].synced_at = 1

\* C18: an event of any of the six topics whose data has no employee_id, or
\* that has no data at all, is dropped: the cache is left as it was.
C18_MissingIdDropped ==
    [][(Handled /\ last'.ev.employee_id = NoId)
       => (cache' = cache /\ last'.outcome = "dropped")]_vars

\* an activated event without employee_id met a cache that holds records
C18_Witness ==
    /\ last.op = "employee-activated"
    /\ last.ev.employee_id = NoId
    /\ last.outcome = "dropped"
    /\ DOMAIN cache # {}

\* the operations of the validation service
FallbackOps == {"verify_employee_exists_async", "get_employee",
                "get_employee_by_email"}

CountOps == {"get_cached_employee_count", "get_active_employee_count"}

ServiceOps == {"verify_employee_exists"} \cup FallbackOps \cup CountOps

\* the step runs an operation of the validation service
Served == last'.op \in ServiceOps /\ steps' = steps + 1

\* C19: no operation of the validation service changes the cache; a lookup
\* that was answered by the remote service stores nothing, so the same
\* lookup run again calls the remote service again.
C19_LookupsDoNotWrite ==
    [][/\ Served => cache' = cache
       /\ (/\ Served
           /\ last'.op \in FallbackOps
           /\ last.op = last'.op
           /\ last.id = last'.id
           /\ last.email = last'.email
           /\ last.remote_calls = 1
           /\ ~last'.db_error)
          => last'.remote_calls = 1]_vars

\* two operations ran, the last a get_employee the remote service answered,
\* and the cache is still empty
C19_Witness ==
    /\ last.op = "get_employee"
    /\ steps = 2
    /\ last.remote = "200"
    /\ last.remote_calls = 1
    /\ DOMAIN last.profile = {"upstream"}
    /\ cache = EmptyCache

\* C20: under every combination of cache read failure and remote failure an
\* operation of the validation service returns normally: the existence
\* checks a boolean, get_employee and get_employee_by_email a profile or
\* None, the count operations an integer.
C20_LookupsNeverRaise ==
    last.op \in ServiceOps
    => /\ ~last.raised
       /\ last.value \in BOOLEAN
       /\ last.count \in 0..Cardinality(DOMAIN cache)
       /\ \/ last.profile = NoneProfile
          \/ DOMAIN last.profile = ProfileFields
          \/ DOMAIN last.profile = {"upstream"}

\* the cache read failed, the remote call raised, and get_employee returned
\* None
C20_Witness ==
    /\ last.op = "get_employee"
    /\ last.db_error
    /\ last.remote = "raises"
    /\ last.profile = NoneProfile
    /\ ~last.raised
    /\ last.id \in DOMAIN cache

\* the step handles an event whose handler meets a storage fault: the read
\* fails in a handler that reads, or the commit in a handler that commits
FaultMet ==
    /\ Handled
    /\ steps' = steps + 1
    /\ last'.ev.employee_id # NoId
    /\ \/ last'.fault = "read"
       \/ /\ last'.fault = "commit"
          /\ Handle(cache, last'.ev, clock).outcome \in {"inserted", "updated"}

\* C17: when the read, the insert or the commit of a handler fails, the
\* handler returns normally and the cache is as it was before the event; no
\* handler ever lets an exception out, and whenever one logs an error the
\* cache is as it was.
C17_HandlersFailSoft ==
    [][/\ FaultMet => (cache' = cache /\ last'.outcome = "error")
       /\ Handled => last'.outcome # "raised"
       /\ (Handled /\ last'.outcome = "error") => cache' = cache]_vars

\* the commit of a created event failed; the event was delivered again and
\* its record inserted
C17_Witness ==
    /\ last.op = "employee-created"
    /\ last.fault = "commit"
    /\ last.fresh
    /\ last.id # NoId
    /\ last.redelivered
    /\ last.outcome = "inserted"
    /\ last.id \in DOMAIN cache

\* the step is the commit of a handler that had read earlier
Committed == DOMAIN sessions' # DOMAIN sessions /\ steps' = steps

\* C16: under every interleaving of the handlers of different topics the
\* cache holds one record per employee id (a record is inserted only for an
\* id that has none, every record is stored under its own id), no handler
\* raises, and no handler changes the id of a record or removes one.
C16_OneRecordPerId ==
    [][/\ \A i \in DOMAIN cache : i \in DOMAIN cache' /\ cache'[i].id = i
       /\ \A i \in DOMAIN cache' : cache'[i].id = i
       /\ Committed
          => /\ last'.outcome # "raised"
             /\ last'.outcome = "inserted" => last'.id \notin DOMAIN cache
             /\ DOMAIN cache' \subseteq DOMAIN cache \cup {last'.id}]_vars

\* a created event and an updated event for the same absent id both read
\* "absent"; the created event committed first, and the insert of the
\* updated event failed on the primary key
C16_Witness ==
    /\ last.op = "employee-updated"
    /\ last.fresh
    /\ last.outcome = "error"
    /\ last.id \in DOMAIN cache
    /\ DOMAIN cache = {last.id}
    /\ cache[last.id].job_title = "Software Engineer"
    /\ sessions = NoSessions

\* what the remote fallback of a get operation returns for a key: the body
\* the upstream service sent with status 200, None otherwise
FromRemote(remote, key) ==
    IF remote = "200" THEN [upstream |-> key] ELSE NoneProfile

\* on a failed cache read the two get operations, and the count operations,
\* do what C21 says
ReadErrorGetsAndCounts ==
    /\ last.op = "get_employee"
       => /\ last.remote_calls = 1
          /\ last.profile = FromRemote(last.remote, ToString(last.id))
    /\ last.op = "get_employee_by_email"
       => /\ last.remote_calls = 1
          /\ last.profile = FromRemote(last.remote, last.email)
    /\ last.op = "verify_employee_exists"
       => (~last.value /\ last.remote_calls = 0)
    /\ last.op \in CountOps => last.count = 0

\* C21 as stated: when the cache read fails, get_employee and
\* get_employee_by_email fall through to the remote fallback, both existence
\* checks return false, and the counts return 0.
C21_ReadErrorDegrades ==
    (last.op \in ServiceOps /\ last.db_error)
    => /\ ReadErrorGetsAndCounts
       /\ last.op = "verify_employee_exists_async" => ~last.value

\* C21, amended: the same, except that verify_employee_exists_async falls
\* through to the remote fallback like the get operations and returns the
\* remote client's boolean.
C21_ReadErrorDegradesAsyncFallsBack ==
    (last.op \in ServiceOps /\ last.db_error)
    => /\ ReadErrorGetsAndCounts
       /\ last.op = "verify_employee_exists_async"
          => /\ last.remote_calls = 1
             /\ last.value <=> last.remote = "200"

\* the cache read failed for a cached employee and the remote service
\* confirmed the employee
C21_Witness ==
    /\ last.op = "verify_employee_exists_async"
    /\ last.db_error
    /\ last.id \in DOMAIN cache
    /\ last.remote = "200"
    /\ last.value
    /\ last.remote_calls = 1

\* C23: get_employee on a cache hit returns a profile of exactly the fixed
\* field set with the values of the cached record, whatever its status, and
\* calls nothing; on a miss it returns what the remote client returned: the
\* body sent with status 200, and None when the remote reports not found or
\* fails.
C23_GetEmployeeProfile ==
    (last.op = "get_employee" /\ ~last.db_error)
    => IF last.id \in DOMAIN cache
       THEN /\ DOMAIN last.profile =
                  {"id", "user_id", "email", "first_name", "last_name",
                   "full_name", "role", "job_title", "department", "team",
                   "manager_id", "employment_type", "status", "joining_date"}
            /\ \A k \in DOMAIN last.profile :
                  last.profile[k] = cache[last.id][k]
            /\ last.remote_calls = 0
       ELSE /\ last.profile = FromRemote(last.remote, ToString(last.id))
            /\ last.remote_calls = 1

\* the profile of a terminated employee was returned from the cache
C23_Witness ==
    /\ last.op = "get_employee"
    /\ ~last.db_error
    /\ last.id \in DOMAIN cache
    /\ cache[last.id].status = "terminated"
    /\ DOMAIN last.profile = ProfileFields
    /\ last.profile.status = "terminated"

\* C24: get_employee_by_email returns the profile of the record whose
\* current email is the one asked for, when there is one, and otherwise what
\* the remote by-email lookup returns; a record whose email an updated event
\* has changed is found under its new email and no longer under its old one.
C24_ByEmailUsesCurrentEmail ==
    (last.op = "get_employee_by_email" /\ ~last.db_error)
    => IF \E j \in DOMAIN cache : cache[j].email = last.email
       THEN /\ DOMAIN last.profile = ProfileFields
            /\ last.profile.email = last.email
            /\ last.profile.id \in DOMAIN cache
            /\ FromRow(last.profile, cache[last.profile.id])
            /\ last.remote_calls = 0
       ELSE /\ last.profile = FromRemote(last.remote, last.email)
            /\ last.remote_calls = 1

\* a record was created under one email and moved to another by an updated
\* event; the lookup by its old email missed the cache
C24_Witness ==
    /\ last.op = "get_employee_by_email"
    /\ ~last.db_error
    /\ last.remote_calls = 1
    /\ \E i \in DOMAIN cache :
          /\ last.email = EmailOf(i)
          /\ cache[i].email \in Emails \ {EmailOf(i)}
          /\ cache[i].first_name = "John"

\* the status a status event sets
StatusSet(topic) ==
    CASE topic = "employee-deleted" -> "deleted"
      [] topic = "employee-terminated" -> "terminated"
      [] topic = "employee-suspended" -> "suspended"
      [] topic = "employee-activated" -> "active"

\* C26: a terminated, suspended or activated event for a cached id sets the
\* record's status, refreshes updated_at and synced_at and changes no other
\* column and no other record; for an absent id it leaves the cache as it
\* was.
C26_StatusEventFrame ==
    [][\A topic \in {"employee-terminated", "employee-suspended",
                     "employee-activated"} :
          (Delivered(topic) /\ last'.id # NoId)
          => IF last'.id \in DOMAIN cache
             THEN /\ DOMAIN cache' = DOMAIN cache
                  /\ \A i \in DOMAIN cache \ {last'.id} : cache'[i] = cache[i]
                  /\ \A k \in Columns \ ({"status"} \cup Timestamps) :
                        cache'[last'.id][k] = cache[last'.id][k]
                  /\ cache'[last'.id].status = StatusSet(topic)
                  /\ \A k \in Timestamps : cache'[last'.id][k] = clock
             ELSE cache' = cache /\ last'.outcome = "noop"]_vars

\* an employee on leave was suspended
C26_Witness ==
    /\ last.op = "employee-suspended"
    /\ last.outcome = "updated"
    /\ last.before = "on_leave"
    /\ cache[last.id].status = "suspended"

\* C30: a status event applied to a cached record sets the record's status
\* whatever the status was and whenever the record was last written: the
\* event applied last wins, and deleted is not final.
C30_LastAppliedWins ==
    [][\A topic \in StatusTopics :
          (Delivered(topic) /\ last'.id \in DOMAIN cache)
          => /\ cache'[last'.id].status = StatusSet(topic)
             /\ last'.outcome = "updated"]_vars

\* an activated event was applied to a deleted record, which is active again
C30_Witness ==
    /\ last.op = "employee-activated"
    /\ last.before = "deleted"
    /\ last.outcome = "updated"
    /\ cache[last.id].status = "active"

\* the methods of the remote client that return a body
ClientGets == {"client.get_employee", "client.get_employees_list",
               "client.get_employee_by_email"}

\* the body the upstream sent with status 200
BodySent ==
    CASE last.remote # "200" -> [body |-> last.remote]
      [] last.op = "client.get_employee" -> [upstream |-> ToString(last.id)]
      [] last.op = "client.get_employees_list" -> [upstream |-> "list"]
      [] last.op = "client.get_employee_by_email" -> [upstream |-> last.email]

\* C25: the remote client never lets a failure out.  verify_employee_exists
\* returns true exactly when the response has status 200.  get_employee,
\* get_employees_list and get_employee_by_email return None for every other
\* status, transport error and exception, return nothing but the body of a
\* response with status 200, and return that body when it is the JSON object
\* the upstream promises.
C25_ClientNeverFails ==
    /\ last.op = "client.verify_employee_exists"
       => /\ ~last.raised
          /\ last.value <=> last.remote \in {"200", "200-array", "200-number",
                                            "200-text"}
    /\ last.op \in ClientGets
       => /\ ~last.raised
          /\ last.remote \in {"404", "500", "RequestError", "Exception",
                              "200-text"}
             => last.profile = NoneProfile
          /\ last.profile # NoneProfile => last.profile = BodySent
          /\ last.remote = "200" => last.profile = BodySent

\* the upstream answered 500 and get_employee returned None
C25_Witness ==
    /\ last.op = "client.get_employee"
    /\ last.remote = "500"
    /\ last.profile = NoneProfile
    /\ ~last.raised

\* C22: once register_employee_handlers has run with the message bus
\* enabled, each of the six lifecycle topics has its handler registered, so
\* that the events of every topic reach the cache.
C22_EveryTopicRegistered ==
    consumer.registration = "done"
    => \A topic \in Topics : topic \in consumer.handlers

\* a request the route answered with its success status
Succeeded == last.response \in {"200", "201"}

\* C27: check_in and check_out decide from the cache when the employee is
\* cached: a record whose status is not active or on_leave is never let
\* through, and a caller of the HR groups, for whom nothing else is looked
\* up, is answered without a remote call.
C27_CacheFirstValidation ==
    (last.op \in {"check_in", "check_out"} /\ last.id \in DOMAIN cache)
    => /\ Succeeded => cache[last.id].status \in ExistsStatuses
       /\ is_hr_or_manager(last.groups) => last.remote_calls = 0

\* a check_in or check_out request of a caller outside the HR groups was
\* served in this step
SelfServiceRequest ==
    /\ steps' = steps + 1
    /\ last'.op \in {"check_in", "check_out"}
    /\ ~is_hr_or_manager(last'.groups)

\* the employee lookup returned an object whose email is the caller's
OwnRecord(l) == l.upstream.lookup = "200" /\ l.upstream.email = l.email

\* C28: in check_in and check_out a caller in none of the groups
\* HR-Administrators, HR-Managers, Team-Managers acts only on the employee
\* whose looked-up email is the caller's own.  An employee that is not found
\* gives 400, another email gives 403, and unless the lookup returned the
\* caller's own record the request does not succeed and the attendance table
\* and the published events are as before.
C28_SelfServiceOnly ==
    [][SelfServiceRequest
       => /\ last'.upstream.lookup \in {"404", "RequestError"}
             => last'.response = "400"
          /\ (last'.upstream.lookup = "200"
              /\ last'.upstream.email # last'.email)
             => last'.response = "403"
          /\ ~OwnRecord(last')
             => /\ last'.response \notin {"200", "201"}
                /\ attendance' = attendance
                /\ published' = published]_vars

\* a caller outside the HR groups asked to check in an employee who has
\* checked in today and whose email is another's, and got 403
C28_Witness ==
    /\ last.op = "check_in"
    /\ last.groups = {"Employees"}
    /\ last.upstream.lookup = "200"
    /\ last.upstream.email # last.email
    /\ last.upstream.verify = "200"
    /\ first(attendance, last.id) # 0
    /\ last.response = "403"

\* C29: every successful check-in, by check_in or check_in_self, on the
\* create and on the update branch, stores the row and then publishes one
\* attendance event when the bus accepts it; when publishing fails a warning
\* is logged, the response is still 201 and the row stays stored.
C29_CheckInPublishes ==
    (last.op \in {"check_in", "check_in_self"} /\ last.response = "201")
    => /\ first(attendance, last.id) # 0
       /\ last.branch \in {"created", "updated"}
       /\ IF last.upstream.bus = "ok"
          THEN /\ Len(published) = 1
               /\ published[1].employee_id = last.id
          ELSE published = << >> /\ last.log = "warning"

\* C31: in every state the handlers reach, each record's full_name is its
\* first_name, a space and its last_name, trimmed; also when the handlers of
\* different topics interleave on one record.
C31_FullNameDerived ==
    \A i \in DOMAIN cache :
        cache[i].full_name = FullName(cache[i].first_name, cache[i].last_name)

\* two rows hold the same values, updated_at and synced_at aside
SameRecord(r1, r2) == \A k \in Columns \ Timestamps : r1[k] = r2[k]

\* the table after two events were handled one after the other
Serial(c, ev1, ev2, now) ==
    Handle(Handle(c, ev1, now).cache, ev2, now).cache

\* session s commits in this step, and the commit before it was that of an
\* event of another topic whose handler had read the same record
SecondOfTwo(s) ==
    /\ s.ev.topic \notin DOMAIN sessions'
    /\ s.found
    /\ last.ev # NoEvent
    /\ last.op = last.ev.topic
    /\ last.ev.topic # s.ev.topic
    /\ last.id = s.ev.employee_id
    /\ last.read = s.employee

\* C32: when the handlers of two topics run concurrently on one cached id,
\* each reading the record, changing it and committing, the stored record is
\* the one that running the two handlers one after the other, in one of the
\* two orders, gives.
C32_ConcurrentIsSerial ==
    [][\A t \in DOMAIN sessions :
          LET s == sessions[t]
              id == s.ev.employee_id
              base == Put(cache, id, s.employee)
          IN  SecondOfTwo(s)
              => \/ SameRecord(cache'[id],
                               Serial(base, last.ev, s.ev, clock)[id])
                 \/ SameRecord(cache'[id],
                               Serial(base, s.ev, last.ev, clock)[id])]_vars

\* what the lookup that returned last gives when it runs in one piece
InOnePiece ==
    CASE last.op = "verify_employee_exists_async" ->
            verify_employee_exists_async(cache, last.id, last.db_error,
                                         last.remote)
      [] last.op = "get_employee" ->
            get_employee(cache, last.id, last.db_error, last.remote)
      [] last.op = "get_employee_by_email" ->
            get_employee_by_email(cache, last.email, last.db_error,
                                  last.remote)

\* a lookup run statement by statement returns what it returns in one piece
CallAgrees ==
    last.op \in AsyncLookups
    => /\ last.value = InOnePiece.value
       /\ last.profile = InOnePiece.profile
       /\ last.remote_calls = InOnePiece.remote_calls

\* C33: in verify_employee_exists_async, get_employee and
\* get_employee_by_email no remote request is in flight while the lookup
\* still holds the cache session it opened: the request is sent only after
\* the session is closed.
C33_NoRequestInsideSession ==
    /\ call.in_flight => ~call.session
    /\ call.pc \in {"fallback", "awaiting", "done"} => ~call.session

\* the cache read of get_employee raised, and its request is in flight with
\* the session closed
C33_Witness ==
    /\ call.op = "get_employee"
    /\ call.db_error
    /\ call.in_flight
    /\ ~call.session

\* the fallback of the running lookup failed
FallbackFailed == call.remote \in RemoteOutcomes \ {"200"}

\* C34: one invocation of verify_employee_exists_async, get_employee or
\* get_employee_by_email sends at most one remote request; a fallback that
\* fails is turned into False or None and the lookup returns without asking
\* again.
C34_AtMostOneRequest ==
    /\ call.requests <= 1
    /\ call.remote # "none" => call.pc = "done"
    /\ (call.pc = "done" /\ FallbackFailed)
       => ~call.value /\ call.profile = NoneProfile

\* the one request of verify_employee_exists_async ended in a transport
\* error and the lookup is about to return False
C34_Witness ==
    /\ call.op = "verify_employee_exists_async"
    /\ call.pc = "done"
    /\ call.requests = 1
    /\ call.remote = "RequestError"
    /\ ~call.value

\* a lifecycle event was delivered in this step
EventStep == steps' = steps + 1 /\ last'.op \in Topics

\* get_employee or verify_employee_exists_async ran in this step, its cache
\* read succeeded, and the cache holds a record for its id
WarmLookup ==
    /\ steps' = steps + 1
    /\ last'.op \in {"get_employee", "verify_employee_exists_async"}
    /\ ~last'.db_error
    /\ last'.id \in DOMAIN cache

\* C35: once a created event or a recovery-creating updated event for an id
\* has been applied, the id stays cached through every later lifecycle
\* event, deleted included, and every later get_employee and
\* verify_employee_exists_async for it whose cache read succeeds is answered
\* from the cached row without a remote request.
C35_CachedStaysLocal ==
    [][/\ EventStep
          => /\ DOMAIN cache \subseteq DOMAIN cache'
             /\ last'.outcome = "inserted" => last'.id \in DOMAIN cache'
       /\ WarmLookup
          => /\ last'.remote_calls = 0
             /\ last'.op = "get_employee"
                => last'.profile = Profile(cache[last'.id])
             /\ last'.op = "verify_employee_exists_async"
                => (last'.value
                    <=> cache[last'.id].status \in ExistsStatuses)]_vars

\* get_employee for an employee who was created and then deleted returned
\* the cached row, although the remote service was reachable
C35_Witness ==
    /\ last.op = "get_employee"
    /\ ~last.db_error
    /\ last.remote = "200"
    /\ last.id \in DOMAIN cache
    /\ cache[last.id].status = "deleted"
    /\ last.profile = Profile(cache[last.id])
    /\ last.remote_calls = 0
    /\ Cardinality(DOMAIN cache) = 1

\* the value each column takes when a created event does not carry it
CreatedDefaults ==
    [user_id |-> NoneVal, email |-> "", first_name |-> "", last_name |-> "",
     role |-> "employee", job_title |-> "", department |-> NoneVal,
     team |-> NoneVal, manager_id |-> NoneVal,
     employment_type |-> "permanent", joining_date |-> NoneVal]

\* a created event was delivered in this step for an id the cache held
CreatedOnExisting ==
    /\ steps' = steps + 1
    /\ last'.op = "employee-created"
    /\ last'.id \in DOMAIN cache

\* the record of the event's id holds the event's values, defaults where the
\* event has none, is active, carries the time of handling, and has kept its
\* id and created_at
Overwritten ==
    LET id == last'.id
        data == last'.ev.data
        old == cache[id]
        new == cache'[id]
        sent(k) == IF k \in DOMAIN data THEN data[k] ELSE CreatedDefaults[k]
    IN  /\ DOMAIN cache' = DOMAIN cache
        /\ \A k \in DOMAIN CreatedDefaults \ {"joining_date"} :
              new[k] = sent(k)
        /\ new.joining_date = parse_date(sent("joining_date"))
        /\ new.full_name = FullName(sent("first_name"), sent("last_name"))
        /\ new.status = "active"
        /\ new.updated_at = clock /\ new.synced_at = clock
        /\ new.id = old.id /\ new.created_at = old.created_at
        /\ \A j \in DOMAIN cache \ {id} : cache'[j] = cache[j]

\* C36 as stated: a created event for an id already in the cache overwrites
\* every mutable field from the event, with the default for a field the
\* event lacks, sets status to active whatever it was, sets updated_at and
\* synced_at to the time of handling and leaves id and created_at as they
\* were.
C36_CreatedOverwrites == [][CreatedOnExisting => Overwritten]_vars

\* C36, amended: the same, when no other record holds the event's email;
\* when one does, the commit fails and the cache is left as it was.
C36_CreatedOverwritesUniqueEmail ==
    [][CreatedOnExisting
       => IF EmailTaken(cache, last'.id, Get(last'.ev.data, "email", ""))
          THEN cache' = cache /\ last'.outcome = "error"
          ELSE Overwritten /\ last'.outcome = "updated"]_vars

\* a created event that carries the identity keys only was applied to a
\* terminated record: the record is active and its other columns hold the
\* defaults
C36_Witness ==
    /\ last.op = "employee-created"
    /\ ~last.fresh
    /\ ~last.redelivered
    /\ last.before = "terminated"
    /\ last.outcome = "updated"
    /\ DOMAIN last.ev.data = IdentityKeys
    /\ cache[last.id].status = "active"
    /\ cache[last.id].job_title = ""
    /\ cache[last.id].role = "employee"

\* the cached ids for which verify_employee_exists returns true
Verified ==
    {i \in DOMAIN cache : verify_employee_exists(cache, i, FALSE).value}

\* the cached ids whose record is on leave
OnLeave == {i \in DOMAIN cache : cache[i].status = "on_leave"}

OneRowPerEmployee(att) ==
    \A j, k \in 1..Len(att) : att[j].employee_id = att[k].employee_id => j = k

\* a check-in request reads and writes the table in this step
Stores(slot) ==
    /\ slot \in DOMAIN requests
    /\ slot \in DOMAIN requests'
    /\ requests[slot].pc # "publish"
    /\ requests'[slot].pc = "publish"

C39_CheckInBeforeCheckOut ==
    \A k \in 1..Len(attendance) :
        (attendance[k].check_in_time # NoTime
         /\ attendance[k].check_out_time # NoTime)
        => attendance[k].check_in_time <= attendance[k].check_out_time

\* a check-out request was served in this step
CheckOutRequest ==
    /\ steps' = steps + 1
    /\ last'.op \in {"check_out", "check_out_self"}

\* the check-out reached the search for today's row: the caller passed the
\* RBAC block and the existence check, or the lookup by email found the
\* employee
ReachedTable(l) ==
    IF l.op = "check_out_self"
    THEN l.upstream.lookup = "200"
    ELSE /\ l.upstream.verify = "200"
         /\ \/ is_hr_or_manager(l.groups)
            \/ l.upstream.lookup = "200" /\ l.upstream.email = l.email

\* C40: a check-out, by check_out or check_out_self, for an employee with no
\* row for today is answered 404 and leaves the table as it was; a check-out
\* that finds the row sets that row's check_out_time and updated_at and
\* nothing else, in that row or in any other.
C40_CheckOutFrame ==
    [][CheckOutRequest
       => LET k == first(attendance, last'.id)
          IN  /\ (ReachedTable(last') /\ k = 0) => last'.response = "404"
              /\ last'.response # "200" => attendance' = attendance
              /\ last'.response = "200"
                 => /\ ReachedTable(last') /\ k # 0
                    /\ attendance' =
                          [attendance EXCEPT ![k].check_out_time = clock,
                                             ![k].updated_at = clock]]_vars

\* check_out_self found the caller's employee, who has not checked in today,
\* answered 404 and left another employee's row alone
C40_Witness ==
    /\ last.op = "check_out_self"
    /\ last.upstream.lookup = "200"
    /\ last.response = "404"
    /\ first(attendance, last.id) = 0
    /\ Len(attendance) = 1

====
